---- MODULE Spec2Model ----
(***************************************************************************)
(* A model of libs/binder/Binder.cpp: BBinder (the local binder object,    *)
(* its lazily allocated Extras, the parceled flag, transaction recording   *)
(* and the RPC-debug bridge with its RpcServerLink death recipient) and    *)
(* BpRefBase (the reference transfer protocol of a proxy to its remote).   *)
(*                                                                         *)
(* Spec        one BBinder driven by its configuration calls               *)
(* SpecRpc     the RPC-debug bridge: setup calls and keep-alive deaths     *)
(* SpecRec     transaction recording: start, stop and transact            *)
(* SpecExtras  NThreads threads racing BBinder::getOrCreateExtras,         *)
(*             one shared-memory access per step                           *)
(* SpecBp      BpRefBase objects driven by the RefBase runtime             *)
(* SpecLock    threads inside the accessors of Extras, with the fields     *)
(*             each one touches and whether it holds Extras::mLock         *)
(*                                                                         *)
(* and of services/inputflinger/reader/mapper/gestures/                    *)
(* GestureConverter.cpp: the conversion of touchpad gestures to motion     *)
(* events.                                                                 *)
(*                                                                         *)
(* SpecGesture one GestureConverter driven by gestures and resets          *)
(*                                                                         *)
(* further, of libs/binder:                                                *)
(*                                                                         *)
(* SpecDispatcher  a servicedispatcher process (servicedispatcher.cpp)     *)
(* SpecKinds       IBinder objects asked for localBinder and remoteBinder  *)
(* SpecLinkRace    one setRpcClientDebug racing the death of its           *)
(*                 keep-alive, one shared access per step                  *)
(* SpecRecRace     threads inside transact with recording started and      *)
(*                 stopped, one shared access per step                     *)
(*                                                                         *)
(* and of the parts of surfaceflinger that are present through their unit  *)
(* tests only:                                                             *)
(*                                                                         *)
(* SpecLayers      LayerLifecycleManager: layers, handles and listeners    *)
(* SpecFrameRate   Layer::setFrameRate and the vote reported for the tree  *)
(* SpecTimeline    FrameTimeline: the display frames retained              *)
(*                                                                         *)
(* and last:                                                               *)
(*                                                                         *)
(* SpecVirtual     transact on a subclass of BBinder, with the codes that  *)
(*                 reach its onTransact                                    *)
(* SpecTouchpad    TouchpadInputMapper with its gesture interpreter and    *)
(*                 its GestureConverter                                    *)
(* SpecMetrics     InputDeviceMetricsCollector: usage sessions and their   *)
(*                 reports                                                 *)
(* SpecActivityManager      ActivityManager::getService and a caller       *)
(* SpecActivityManagerFair  the same with the caller's thread scheduled    *)
(* SpecGraphicsEnv the GpuStats calls of GraphicsEnv and its sender thread *)
(*                                                                         *)
(* The build modelled is the one with BINDER_RPC_DEV_SERVERS and           *)
(* BINDER_ENABLE_RECORDING defined and kernel IPC enabled, on Linux, and   *)
(* with touchpad palm rejection enabled.                                   *)
(***************************************************************************)
EXTENDS Integers, Sequences, FiniteSets, TLC

(***************************************************************************)
(* Bounds of the model.                                                    *)
(***************************************************************************)
NThreads == 3
MaxRefs == 2
MaxRevivals == 2
MaxServers == 2
MaxRecorded == 1

(***************************************************************************)
(* Program constants.                                                      *)
(***************************************************************************)
kUidRoot == 0
kRemoteAcquired == 1
kEnableRpcDevServers == TRUE
kEnableRecording == TRUE
kEnableKernelIpc == TRUE

NULL == 0
Threads == 1..NThreads
\* Addresses operator new can hand out for an Extras block.
Allocs == 1..NThreads
\* Calling uids: root and one application uid.
Uids == {kUidRoot, 1000}
\* The binders passed as extension.
Extensions == {NULL, 1}
\* Keep-alive binders: two remote proxies and one local BBinder.
RemoteKeepAlives == {1, 2}
LocalKeepAlives == {3}
KeepAlives == RemoteKeepAlives \cup LocalKeepAlives
\* RpcServer and RpcServerLink objects are numbered in order of creation.
ServerIds == 1..MaxServers
\* Descriptors: -1 is "not ok"; 7 is the socket of an RPC client, 5 a
\* recording file.
NoFd == -1
SocketFd == 7
RecordingFd == 5
\* The thread pool sizes a process is configured with: single-threaded and
\* multi-threaded.
PoolCounts == {1, 4}

\* (policy, priority) pairs handed to setMinSchedulerPolicy: the default,
\* valid non-default ones, out-of-range priorities and an unknown policy.
SchedArgs ==
    { <<"SCHED_NORMAL", 0>>, <<"SCHED_NORMAL", 19>>, <<"SCHED_NORMAL", 20>>,
      <<"SCHED_FIFO", 1>>, <<"SCHED_FIFO", 0>>, <<"SCHED_RR", 99>>,
      <<"SCHED_RR", 100>>, <<"SCHED_BATCH", 0>> }

\* GestureConverter: the timestamps handed to the converter are 1..MaxTime.
MaxTime == 1
MaxButtonsPerGesture == 2
\* IBinder objects constructed side by side.
MaxBinders == 3
IBinders == 1..MaxBinders
NotSeen == [asked |-> FALSE, local |-> 0, remote |-> 0]
\* servicedispatcher: the calls forwarded to the wrapped service manager.
MaxImplCalls == 2
\* LayerLifecycleManager: the layer ids handed out.
MaxLayers == 4
LayerIds == 1..MaxLayers
UNASSIGNED_LAYER_ID == 0
\* Layer::setFrameRate: the layers of the tree.
MaxTreeLayers == 3
TreeLayers == 1..MaxTreeLayers
NoParent == 0
\* FrameTimeline: the display frames presented, the sizes given to
\* setMaxDisplayFrames, and kDefaultMaxDisplayFrames scaled to them.
MaxPresented == 5
MaxSize == 3
DefaultMaxDisplayFrames == 2
MaxSurfaceFrames == 1
\* Recording under concurrency: the threads of the pool inside transact and
\* the recording fds opened.
NRecThreads == 2
RecThreads == 1..NRecThreads
MaxRecordingFds == 2
NoThread == 0
ResetFd == 0
\* TouchpadInputMapper: the gestures the interpreter hands over during one
\* PushHardwareState.
MaxGesturesPerState == 2
\* InputDeviceMetricsCollector: the ids of the devices, one of them the
\* virtual keyboard; the clock runs from 0 to MaxClock and a usage session
\* times out after UsageSessionTimeout; at most MaxInteractions interactions
\* wait in the queue.
VIRTUAL_KEYBOARD_ID == -1
MaxDevices == 2
MetricsDevices == {VIRTUAL_KEYBOARD_ID} \cup (1..MaxDevices)
MaxClock == 3
UsageSessionTimeout == 2
MaxInteractions == 1
NoTime == -1
UsageSources == {"KEYBOARD", "TOUCHSCREEN"}
\* ActivityManager: the binders the activity service has had; the clock
\* counts sleeps of getService from 1 to MaxAmClock, and getService gives
\* up once more than GiveUpLimit of them have passed since its first poll
\* without a binder.
MaxAmBinders == 2
AmBinders == 1..MaxAmBinders
MaxAmClock == 5
GiveUpLimit == 2
\* GraphicsEnv: the APIs a driver is loaded for, and the loads of one API.
GpuApis == {"API_GL", "API_VK"}
MaxDriverLoads == 2
Times == 1..MaxTime
ENABLE_TOUCHPAD_PALM_REJECTION == TRUE
NoDisplay == -1
ADISPLAY_ID_DEFAULT == 0
GESTURES_BUTTON_LEFT == 1
GESTURES_BUTTON_MIDDLE == 2
GESTURES_BUTTON_RIGHT == 4
GESTURES_BUTTON_BACK == 8
GESTURES_BUTTON_FORWARD == 16
AMOTION_EVENT_BUTTON_PRIMARY == 1
AMOTION_EVENT_BUTTON_SECONDARY == 2
AMOTION_EVENT_BUTTON_TERTIARY == 4
AMOTION_EVENT_BUTTON_BACK == 8
AMOTION_EVENT_BUTTON_FORWARD == 16
\* The buttons of the touchpads modelled: two pointer buttons and one that
\* is not.
GesturesButtons == {GESTURES_BUTTON_LEFT, GESTURES_BUTTON_RIGHT, GESTURES_BUTTON_BACK}

VARIABLES
    \* BBinder
    mExtras,          \* std::atomic<Extras*>: NULL or an address in Allocs
    heap,             \* address -> "unalloc" | "live" | "freed"
    mParceled,
    mRecordingOn,
    \* BBinder::Extras, the fields of the block mExtras points to
    mExtension,
    mPolicy,
    mPriority,
    mRequestingSid,
    mInheritRt,
    mRpcServerLinks,  \* std::set<sp<RpcServerLink>>
    mRecordingFd,     \* unique_fd: -1 when it holds nothing
    \* the objects setRpcClientDebug creates and the binders it is given
    links,            \* RpcServerLink objects, by id
    servers,          \* RpcServer objects, by id
    nextId,           \* RpcServer::make calls so far
    recipients,       \* keep-alive binder -> links registered by linkToDeath
    alive,            \* keep-alive binder -> its peer has not died
    threadPoolMax,    \* ProcessState::getThreadPoolMaxTotalThreadCount()
    recorded,         \* what has been written to the recording file
    \* the process
    aborted,          \* LOG_ALWAYS_FATAL fired
    lastOp,           \* the last call made, its inputs and the status returned
    \* the threads inside BBinder::getOrCreateExtras (SpecExtras)
    pc,               \* thread -> the statement it is at
    e,                \* thread -> its local e
    expected,         \* thread -> its local expected
    \* a BpRefBase and its remote (SpecBp)
    bp,               \* the proxy: its lifetime, mRemote, mRefs, mState
    refs,             \* the proxy's own RefBase counts
    remote,           \* the strong and weak counts of the remote binder
    tally,            \* what the proxy has done to the remote's counts
    \* the threads inside the accessors of the Extras fields (SpecLock)
    mLock,            \* Extras::mLock: the thread holding it, or NULL
    inCall,           \* thread -> the accessor it is in and where in it
    \* a GestureConverter and what surrounds it (SpecGesture)
    mCurrentClassification,
    mButtonState,     \* the AMOTION_EVENT_BUTTON_* bits that are set
    mDownTime,
    mSwipeFingerCount,
    mDisplayId,       \* std::optional: NoDisplay when it holds nothing
    preventingTaps,   \* InputReaderContext::isPreventingTouchpadTaps()
    gestureFatal,     \* LOG_ALWAYS_FATAL fired in the converter
    gestureCall,      \* the last call made on the converter
    gestureOut,       \* the NotifyMotionArgs that call returned
    streamDown,       \* the last of ACTION_DOWN and ACTION_UP returned so far is a DOWN
    \* a servicedispatcher process (SpecDispatcher)
    sdPc,             \* where main is
    sdArgv,           \* the command line and ro.debuggable
    sdStdout,         \* what has been written to std::cout
    sdStderr,         \* the diagnostics written to std::cerr
    sdExit,           \* "running", or how the process ended
    sdAdbCallback,    \* IAdbManager::registerCallback has succeeded
    sdPort,           \* the port setupInetServer bound
    sdImplCalls,      \* the calls made on ServiceManagerProxyToNative::mImpl
    sdCall,           \* the last call on the proxy and what it returned
    \* IBinder objects of either kind (SpecKinds)
    kind,             \* object -> "none", its class, or "destroyed"
    seen,             \* object -> what localBinder() and remoteBinder() last returned
    \* LayerLifecycleManager (SpecLayers)
    mIdToLayer,       \* id -> the layer's RequestedLayerState, or NoLayer
    mDestroyedLayers, \* the layers destroyed since the last commit
    destroyedReports, \* id -> the onLayerDestroyed calls the listener has had
    \* Layer frame rate votes (SpecFrameRate)
    mParent,          \* layer -> its parent, or NoParent
    frameRate,        \* layer -> the vote set on it
    frameRateForLayerTree,    \* layer -> the current state's vote for the tree
    drawingFrameRateForLayerTree, \* layer -> what getFrameRateForLayerTree returns
    \* FrameTimeline (SpecTimeline)
    mDisplayFrames,       \* std::deque of the display frames retained
    mMaxDisplayFrames,
    mCurrentDisplayFrame, \* the display frame being built
    presented,            \* the display frames presented so far
    \* One setRpcClientDebug racing the death of its keep-alive (SpecLinkRace)
    setupCall,        \* the thread inside setRpcClientDebug: its position and status
    deathCall,        \* the thread inside RpcServerLink::binderDied: its position
    bridge,           \* Extras::mLock, the keep-alive, the RpcServer and the link set
    \* Threads inside transact, start and stop of one BBinder (SpecRecRace)
    recThread,        \* thread -> its position in transact and what it has read
    recShared,        \* mExtras, Extras::mLock, mRecordingOn, mRecordingFd and the writes
    \* A subclass of BBinder that overrides onTransact (SpecVirtual)
    onTransactCalls,  \* the codes the last transact called its onTransact with
    \* A TouchpadInputMapper around the GestureConverter (SpecTouchpad)
    tpPc,                  \* "idle", or the PushHardwareState the mapper is inside
    mResettingInterpreter,
    mGesturesToProcess,    \* std::vector<Gesture>
    mPointerCaptured,
    mGestureInterpreter,   \* the gesture the gestures library is in the middle of
    tpDiscarded,           \* the gestures consumeGesture has dropped in this reset
    tpTrap,                \* an empty std::optional was dereferenced and the build trapped
    \* An InputDeviceMetricsCollector, its logger and its clock (SpecMetrics)
    mLoggedDeviceInfos,    \* the ids that are keys of the std::map
    mActiveUsageSessions,  \* id -> the ActiveSession, or NoSession
    mInteractionsQueue,
    mcNow,                 \* what mLogger.getCurrentTime() returns
    mcReports,             \* id -> the logInputDeviceUsageReported calls of the last call
    mcNotified,            \* the last step was a call of an InputListenerInterface notify
    mcFatal,               \* LOG_ALWAYS_FATAL_IF fired in reportCompletedSessions
    \* An ActivityManager, the activity service and the clock (SpecActivityManager)
    mService,              \* the cached IActivityManager, or NULL
    amAlive,               \* the activity-service binders whose process lives
    amPoolStarted,         \* ProcessState::self()->isThreadPoolStarted()
    amPc,                  \* where the thread inside getService is
    amLock,                \* ActivityManager::mLock is held
    amService,             \* the local variable service of getService
    amStartTime,           \* the local variable startTime of getService
    amClock,               \* what uptimeMillis() returns
    amFoundDead,           \* the services the call has seen isBinderAlive() false for
    amLast,                \* what the last call of registerUidObserver did
    \* A GraphicsEnv, its callers and its sender thread (SpecGraphicsEnv)
    mActivityLaunched,
    appPackageName,        \* mGpuStats.appPackageName
    driverToSend,          \* api -> mGpuStats.glDriverToSend, mGpuStats.vkDriverToSend
    trySendGpuStatsThread, \* where the thread hintActivityLaunch has spawned is
    driverLoads,           \* api -> the calls of setDriverLoaded so far
    gpuBinder,             \* the static binder of getGpuService
    gpuStatsSent           \* api -> the calls of IGpuService::setGpuStats so far

extrasFields == <<mExtension, mPolicy, mPriority, mRequestingSid, mInheritRt>>
rpcVars == <<mRpcServerLinks, links, servers, nextId, recipients, alive>>
recVars == <<mRecordingOn, mRecordingFd, recorded>>
binderVars == <<mExtras, heap, mParceled, extrasFields, rpcVars, recVars,
                threadPoolMax, aborted>>
goceVars == <<pc, e, expected>>
\* What a call of the BBinder API leaves alone.
bpVars == <<bp, refs, remote, tally>>
lockVars == <<mLock, inCall>>
converterVars == <<mCurrentClassification, mButtonState, mDownTime, mSwipeFingerCount,
                   mDisplayId, preventingTaps, gestureFatal>>
gestureVars == <<converterVars, gestureCall, gestureOut, streamDown>>
dispatcherVars == <<sdPc, sdArgv, sdStdout, sdStderr, sdExit, sdAdbCallback, sdPort,
                    sdImplCalls, sdCall>>
\* The programs other than BBinder, BpRefBase and GestureConverter.
kindVars == <<kind, seen>>
layerVars == <<mIdToLayer, mDestroyedLayers, destroyedReports>>
frameRateVars == <<mParent, frameRate, frameRateForLayerTree, drawingFrameRateForLayerTree>>
timelineVars == <<mDisplayFrames, mMaxDisplayFrames, mCurrentDisplayFrame, presented>>
linkRaceVars == <<setupCall, deathCall, bridge>>
recRaceVars == <<recThread, recShared>>
virtualVars == <<onTransactCalls>>
\* The programs of libs/binder and surfaceflinger named above.
laterBase == <<dispatcherVars, kindVars, layerVars, frameRateVars, timelineVars,
               linkRaceVars, recRaceVars>>
\* The programs modelled after them.
touchpadVars == <<tpPc, mResettingInterpreter, mGesturesToProcess, mPointerCaptured,
                  mGestureInterpreter, tpDiscarded, tpTrap>>
metricsVars == <<mLoggedDeviceInfos, mActiveUsageSessions, mInteractionsQueue, mcNow,
                 mcReports, mcNotified, mcFatal>>
amVars == <<mService, amAlive, amPoolStarted, amPc, amLock, amService, amStartTime, amClock,
            amFoundDead, amLast>>
gpuVars == <<mActivityLaunched, appPackageName, driverToSend, trySendGpuStatsThread,
             driverLoads, gpuBinder, gpuStatsSent>>
moreVars == <<virtualVars, touchpadVars, metricsVars, amVars, gpuVars>>
laterVars == <<laterBase, moreVars>>
apiFrame == <<threadPoolMax, goceVars, bpVars, lockVars, gestureVars, laterVars>>
vars == <<binderVars, lastOp, goceVars, bpVars, lockVars, gestureVars, laterVars>>
\* BBinder, BpRefBase and GestureConverter, for the programs that touch none
\* of them.
earlierVars == <<binderVars, lastOp, goceVars, bpVars, lockVars, gestureVars>>

(***************************************************************************)
(* Parcel (libs/binder/Parcel.cpp, not part of the sources): a sequence of *)
(* typed items read in order; a read past the end or of another type       *)
(* fails.                                                                  *)
(***************************************************************************)
Item(t, v) == [t |-> t, v |-> v]

readStatus(data, pos, t) ==
    IF pos > Len(data) THEN "NOT_ENOUGH_DATA"
    ELSE IF data[pos].t # t THEN "BAD_TYPE"
    ELSE "OK"

(***************************************************************************)
(* BBinder::BBinder() and the member initialisers of BBinder::Extras.      *)
(***************************************************************************)
NoLink == [state |-> "none", mRpcServer |-> NULL, mKeepAliveBinder |-> NULL,
           mBinder |-> FALSE]
NoServer == [made |-> FALSE, root |-> FALSE, transport |-> FALSE, maxThreads |-> 0,
             started |-> FALSE, shutdowns |-> 0]

BBinderInit ==
    /\ mExtras = NULL
    /\ heap = [a \in Allocs |-> "unalloc"]
    /\ mParceled = FALSE
    /\ mRecordingOn = FALSE
    /\ mExtension = NULL
    /\ mPolicy = "SCHED_NORMAL"
    /\ mPriority = 0
    /\ mRequestingSid = FALSE
    /\ mInheritRt = FALSE
    /\ mRpcServerLinks = {}
    /\ mRecordingFd = NoFd
    /\ aborted = FALSE

EnvInit ==
    /\ links = [l \in ServerIds |-> NoLink]
    /\ servers = [s \in ServerIds |-> NoServer]
    /\ nextId = 0
    /\ recipients = [k \in KeepAlives |-> {}]
    /\ alive = [k \in KeepAlives |-> TRUE]
    /\ threadPoolMax \in PoolCounts
    /\ recorded = <<>>
    /\ lastOp = [op |-> "none", args |-> <<>>, status |-> "OK"]

Call(op, args) == [op |-> op, args |-> args, status |-> "OK"]

\* The call returns status.
Returned(call, status) == lastOp' = [call EXCEPT !.status = status]

\* LOG_ALWAYS_FATAL / LOG_ALWAYS_FATAL_IF fires inside the call.
Fatal(call) == Returned(call, "FATAL")

\* One call into the object by a live process; the process is gone once a
\* fatal check has fired.
Api(handler) ==
    /\ ~aborted
    /\ handler
    /\ aborted' = (lastOp'.status = "FATAL")
    /\ UNCHANGED apiFrame

(***************************************************************************)
(* BBinder::getOrCreateExtras() with no concurrent caller: the pointer     *)
(* returned and the heap after the call.  The address is the lowest free   *)
(* one.                                                                    *)
(***************************************************************************)
LowestFree(h) ==
    CHOOSE a \in Allocs : h[a] # "live" /\ \A b \in Allocs : h[b] # "live" => a <= b

getOrCreateExtras ==
    IF mExtras # NULL
    THEN [e |-> mExtras, heap |-> heap]
    ELSE [e |-> LowestFree(heap), heap |-> [heap EXCEPT ![LowestFree(heap)] = "live"]]

\* The caller continues with e == getOrCreateExtras().
WithExtras ==
    /\ mExtras' = getOrCreateExtras.e
    /\ heap' = getOrCreateExtras.heap

(***************************************************************************)
(* Setters of the unlocked Extras fields.                                  *)
(***************************************************************************)
\* setRequestingSid without its LOG_ALWAYS_FATAL_IF(mParceled, ...).
setRequestingSid_Unchecked(requestingSid) ==
    LET call == Call("setRequestingSid", [v |-> requestingSid]) IN
    /\ UNCHANGED <<mParceled, mExtension, mPolicy, mPriority, mInheritRt, rpcVars,
                   mRecordingOn, mRecordingFd>>
    /\ IF mExtras = NULL /\ ~requestingSid
       THEN UNCHANGED <<mExtras, heap, mRequestingSid>>
       ELSE WithExtras /\ mRequestingSid' = requestingSid
    /\ Returned(call, "OK")

setRequestingSid(requestingSid) ==
    LET call == Call("setRequestingSid", [v |-> requestingSid]) IN
    /\ UNCHANGED <<mParceled, mExtension, mPolicy, mPriority, mInheritRt, rpcVars,
                   mRecordingOn, mRecordingFd>>
    /\ IF mParceled
       THEN Fatal(call) /\ UNCHANGED <<mExtras, heap, mRequestingSid>>
       ELSE /\ IF mExtras = NULL /\ ~requestingSid
               THEN UNCHANGED <<mExtras, heap, mRequestingSid>>
               ELSE WithExtras /\ mRequestingSid' = requestingSid
            /\ Returned(call, "OK")

\* setInheritRt without the shortcut for the default value.
setInheritRt_AlwaysAllocates(inheritRt) ==
    LET call == Call("setInheritRt", [v |-> inheritRt]) IN
    /\ UNCHANGED <<mParceled, mExtension, mPolicy, mPriority, mRequestingSid, rpcVars,
                   mRecordingOn, mRecordingFd>>
    /\ IF mParceled
       THEN Fatal(call) /\ UNCHANGED <<mExtras, heap, mInheritRt>>
       ELSE /\ WithExtras
            /\ mInheritRt' = inheritRt
            /\ Returned(call, "OK")

setInheritRt(inheritRt) ==
    LET call == Call("setInheritRt", [v |-> inheritRt]) IN
    /\ UNCHANGED <<mParceled, mExtension, mPolicy, mPriority, mRequestingSid, rpcVars,
                   mRecordingOn, mRecordingFd>>
    /\ IF mParceled
       THEN Fatal(call) /\ UNCHANGED <<mExtras, heap, mInheritRt>>
       ELSE /\ IF mExtras = NULL /\ ~inheritRt
               THEN UNCHANGED <<mExtras, heap, mInheritRt>>
               ELSE WithExtras /\ mInheritRt' = inheritRt
            /\ Returned(call, "OK")

\* The switch on policy: TRUE when one of its LOG_ALWAYS_FATALs fires.
InvalidSchedArgs(policy, priority) ==
    CASE policy = "SCHED_NORMAL" -> priority < -20 \/ priority > 19
      [] policy \in {"SCHED_RR", "SCHED_FIFO"} -> priority < 1 \/ priority > 99
      [] OTHER -> TRUE

setMinSchedulerPolicy(policy, priority) ==
    LET call == Call("setMinSchedulerPolicy", [v |-> <<policy, priority>>]) IN
    /\ UNCHANGED <<mParceled, mExtension, mRequestingSid, mInheritRt, rpcVars,
                   mRecordingOn, mRecordingFd>>
    /\ IF mParceled \/ InvalidSchedArgs(policy, priority)
       THEN Fatal(call) /\ UNCHANGED <<mExtras, heap, mPolicy, mPriority>>
       ELSE /\ IF mExtras = NULL /\ policy = "SCHED_NORMAL" /\ priority = 0
               THEN UNCHANGED <<mExtras, heap, mPolicy, mPriority>>
               ELSE WithExtras /\ mPolicy' = policy /\ mPriority' = priority
            /\ Returned(call, "OK")

setExtension(extension) ==
    LET call == Call("setExtension", [v |-> extension]) IN
    /\ UNCHANGED <<mParceled, mPolicy, mPriority, mRequestingSid, mInheritRt, rpcVars,
                   mRecordingOn, mRecordingFd>>
    /\ IF mParceled
       THEN Fatal(call) /\ UNCHANGED <<mExtras, heap, mExtension>>
       ELSE /\ WithExtras
            /\ mExtension' = extension
            /\ Returned(call, "OK")

setParceled ==
    /\ mParceled' = TRUE
    /\ Returned(Call("setParceled", <<>>), "OK")
    /\ UNCHANGED <<mExtras, heap, extrasFields, rpcVars, mRecordingOn, mRecordingFd>>

(***************************************************************************)
(* linkToDeath on the keep-alive binder.  A local binder refuses           *)
(* (BBinder::linkToDeath); a proxy registers the recipient unless its peer *)
(* is already known dead (BpBinder::linkToDeath, not part of the sources). *)
(***************************************************************************)
BBinder_linkToDeath == "INVALID_OPERATION"

BpBinder_linkToDeath(k) == IF alive[k] THEN "OK" ELSE "DEAD_OBJECT"

linkToDeath(k) ==
    IF k \in LocalKeepAlives THEN BBinder_linkToDeath ELSE BpBinder_linkToDeath(k)

\* The statuses RpcServer::setupExternalServer can return.
SetupStatuses == {"OK", "INVALID_OPERATION"}

\* setRpcClientDebug with the keep-alive binder checked before the socket.
setRpcClientDebugFd_NullFirst(call, socketFd, keepAliveBinder) ==
    IF keepAliveBinder = NULL
    THEN Returned(call, "UNEXPECTED_NULL") /\ UNCHANGED <<mExtras, heap, rpcVars>>
    ELSE IF socketFd = NoFd
    THEN Returned(call, "BAD_VALUE") /\ UNCHANGED <<mExtras, heap, rpcVars>>
    ELSE IF threadPoolMax <= 1
    THEN Returned(call, "INVALID_OPERATION") /\ UNCHANGED <<mExtras, heap, rpcVars>>
    ELSE
      LET id == nextId + 1
          link == [state |-> "live", mRpcServer |-> id,
                   mKeepAliveBinder |-> keepAliveBinder, mBinder |-> TRUE]
          linkStatus == linkToDeath(keepAliveBinder)
      IN
      /\ nextId < MaxServers
      /\ WithExtras
      /\ nextId' = id
      /\ UNCHANGED alive
      /\ \E made \in BOOLEAN, setupStatus \in SetupStatuses :
         IF ~made
         THEN /\ Fatal(call)
              /\ UNCHANGED <<mRpcServerLinks, links, servers, recipients>>
         ELSE IF linkStatus # "OK"
         THEN /\ Returned(call, linkStatus)
              /\ links' = [links EXCEPT ![id] = [link EXCEPT !.state = "destroyed"]]
              /\ servers' = [servers EXCEPT ![id] = [NoServer EXCEPT !.made = TRUE]]
              /\ UNCHANGED <<mRpcServerLinks, recipients>>
         ELSE
              /\ recipients' = [recipients EXCEPT ![keepAliveBinder] = @ \cup {id}]
              /\ IF setupStatus # "OK"
                 THEN /\ Returned(call, setupStatus)
                      /\ links' = [links EXCEPT ![id] = [link EXCEPT !.state = "destroyed"]]
                      /\ servers' = [servers EXCEPT ![id] =
                                       [NoServer EXCEPT !.made = TRUE, !.root = TRUE]]
                      /\ UNCHANGED mRpcServerLinks
                 ELSE /\ Returned(call, "OK")
                      /\ links' = [links EXCEPT ![id] = link]
                      /\ servers' = [servers EXCEPT ![id] =
                                       [made |-> TRUE, root |-> TRUE, transport |-> TRUE,
                                        maxThreads |-> threadPoolMax, started |-> TRUE,
                                        shutdowns |-> 0]]
                      /\ mRpcServerLinks' = mRpcServerLinks \cup {id}

\* setRpcClientDebug with the link put in the set as soon as it is
\* registered on the keep-alive binder, before the transport is set up.
setRpcClientDebugFd_EarlyEmplace(call, socketFd, keepAliveBinder) ==
    IF socketFd = NoFd
    THEN Returned(call, "BAD_VALUE") /\ UNCHANGED <<mExtras, heap, rpcVars>>
    ELSE IF keepAliveBinder = NULL
    THEN Returned(call, "UNEXPECTED_NULL") /\ UNCHANGED <<mExtras, heap, rpcVars>>
    ELSE IF threadPoolMax <= 1
    THEN Returned(call, "INVALID_OPERATION") /\ UNCHANGED <<mExtras, heap, rpcVars>>
    ELSE
      LET id == nextId + 1
          link == [state |-> "live", mRpcServer |-> id,
                   mKeepAliveBinder |-> keepAliveBinder, mBinder |-> TRUE]
          linkStatus == linkToDeath(keepAliveBinder)
      IN
      /\ nextId < MaxServers
      /\ WithExtras
      /\ nextId' = id
      /\ UNCHANGED alive
      /\ \E made \in BOOLEAN, setupStatus \in SetupStatuses :
         IF ~made
         THEN /\ Fatal(call)
              /\ UNCHANGED <<mRpcServerLinks, links, servers, recipients>>
         ELSE IF linkStatus # "OK"
         THEN /\ Returned(call, linkStatus)
              /\ links' = [links EXCEPT ![id] = [link EXCEPT !.state = "destroyed"]]
              /\ servers' = [servers EXCEPT ![id] = [NoServer EXCEPT !.made = TRUE]]
              /\ UNCHANGED <<mRpcServerLinks, recipients>>
         ELSE
              /\ recipients' = [recipients EXCEPT ![keepAliveBinder] = @ \cup {id}]
              /\ links' = [links EXCEPT ![id] = link]
              /\ mRpcServerLinks' = mRpcServerLinks \cup {id}
              /\ IF setupStatus # "OK"
                 THEN /\ Returned(call, setupStatus)
                      /\ servers' = [servers EXCEPT ![id] =
                                       [NoServer EXCEPT !.made = TRUE, !.root = TRUE]]
                 ELSE /\ Returned(call, "OK")
                      /\ servers' = [servers EXCEPT ![id] =
                                       [made |-> TRUE, root |-> TRUE, transport |-> TRUE,
                                        maxThreads |-> threadPoolMax, started |-> TRUE,
                                        shutdowns |-> 0]]

(***************************************************************************)
(* BBinder::setRpcClientDebug(unique_fd, const sp<IBinder>&).  made is     *)
(* whether RpcServer::make returned a server, setupStatus what             *)
(* setupExternalServer returns.  A link that is not put in the set is      *)
(* destroyed on return, when the last sp<> to it goes out of scope.        *)
(***************************************************************************)
setRpcClientDebugFd(call, socketFd, keepAliveBinder) ==
    IF ~kEnableRpcDevServers \/ ~kEnableKernelIpc
    THEN Returned(call, "INVALID_OPERATION") /\ UNCHANGED <<mExtras, heap, rpcVars>>
    ELSE IF socketFd = NoFd
    THEN Returned(call, "BAD_VALUE") /\ UNCHANGED <<mExtras, heap, rpcVars>>
    ELSE IF keepAliveBinder = NULL
    THEN Returned(call, "UNEXPECTED_NULL") /\ UNCHANGED <<mExtras, heap, rpcVars>>
    ELSE IF threadPoolMax <= 1
    THEN Returned(call, "INVALID_OPERATION") /\ UNCHANGED <<mExtras, heap, rpcVars>>
    ELSE
      LET id == nextId + 1
          link == [state |-> "live", mRpcServer |-> id,
                   mKeepAliveBinder |-> keepAliveBinder, mBinder |-> TRUE]
          linkStatus == linkToDeath(keepAliveBinder)
      IN
      /\ nextId < MaxServers
      /\ WithExtras
      /\ nextId' = id
      /\ UNCHANGED alive
      /\ \E made \in BOOLEAN, setupStatus \in SetupStatuses :
         IF ~made
         THEN /\ Fatal(call)
              /\ UNCHANGED <<mRpcServerLinks, links, servers, recipients>>
         ELSE IF linkStatus # "OK"
         THEN /\ Returned(call, linkStatus)
              /\ links' = [links EXCEPT ![id] = [link EXCEPT !.state = "destroyed"]]
              /\ servers' = [servers EXCEPT ![id] = [NoServer EXCEPT !.made = TRUE]]
              /\ UNCHANGED <<mRpcServerLinks, recipients>>
         ELSE
              /\ recipients' = [recipients EXCEPT ![keepAliveBinder] = @ \cup {id}]
              /\ IF setupStatus # "OK"
                 THEN /\ Returned(call, setupStatus)
                      /\ links' = [links EXCEPT ![id] = [link EXCEPT !.state = "destroyed"]]
                      /\ servers' = [servers EXCEPT ![id] =
                                       [NoServer EXCEPT !.made = TRUE, !.root = TRUE]]
                      /\ UNCHANGED mRpcServerLinks
                 ELSE /\ Returned(call, "OK")
                      /\ links' = [links EXCEPT ![id] = link]
                      /\ servers' = [servers EXCEPT ![id] =
                                       [made |-> TRUE, root |-> TRUE, transport |-> TRUE,
                                        maxThreads |-> threadPoolMax, started |-> TRUE,
                                        shutdowns |-> 0]]
                      /\ mRpcServerLinks' = mRpcServerLinks \cup {id}

\* The items a SET_RPC_CLIENT_TRANSACTION parcel is read as.
RpcParcel(hasSocketFd, fd, binder) ==
    <<Item("bool", hasSocketFd)>> \o fd \o binder

\* The handler of SET_RPC_CLIENT_TRANSACTION without the check of the
\* calling uid.
setRpcClientDebugParcel_AnyUid(call, uid, data) ==
    LET hasSocketFd == data[1].v
        binderPos == IF hasSocketFd THEN 3 ELSE 2
    IN
    IF readStatus(data, 1, "bool") # "OK"
    THEN Returned(call, readStatus(data, 1, "bool")) /\ UNCHANGED <<mExtras, heap, rpcVars>>
    ELSE IF hasSocketFd /\ readStatus(data, 2, "fd") # "OK"
    THEN Returned(call, readStatus(data, 2, "fd")) /\ UNCHANGED <<mExtras, heap, rpcVars>>
    ELSE IF readStatus(data, binderPos, "binder") # "OK"
    THEN /\ Returned(call, readStatus(data, binderPos, "binder"))
         /\ UNCHANGED <<mExtras, heap, rpcVars>>
    ELSE setRpcClientDebugFd(call, IF hasSocketFd THEN data[2].v ELSE NoFd,
                             data[binderPos].v)

(***************************************************************************)
(* BBinder::setRpcClientDebug(const Parcel&), the handler of               *)
(* SET_RPC_CLIENT_TRANSACTION.                                             *)
(***************************************************************************)
setRpcClientDebugParcel(call, uid, data) ==
    LET hasSocketFd == data[1].v
        binderPos == IF hasSocketFd THEN 3 ELSE 2
    IN
    IF ~kEnableRpcDevServers \/ ~kEnableKernelIpc
    THEN Returned(call, "INVALID_OPERATION") /\ UNCHANGED <<mExtras, heap, rpcVars>>
    ELSE IF uid # kUidRoot
    THEN Returned(call, "PERMISSION_DENIED") /\ UNCHANGED <<mExtras, heap, rpcVars>>
    ELSE IF readStatus(data, 1, "bool") # "OK"
    THEN Returned(call, readStatus(data, 1, "bool")) /\ UNCHANGED <<mExtras, heap, rpcVars>>
    ELSE IF hasSocketFd /\ readStatus(data, 2, "fd") # "OK"
    THEN Returned(call, readStatus(data, 2, "fd")) /\ UNCHANGED <<mExtras, heap, rpcVars>>
    ELSE IF readStatus(data, binderPos, "binder") # "OK"
    THEN /\ Returned(call, readStatus(data, binderPos, "binder"))
         /\ UNCHANGED <<mExtras, heap, rpcVars>>
    ELSE setRpcClientDebugFd(call, IF hasSocketFd THEN data[2].v ELSE NoFd,
                             data[binderPos].v)

(***************************************************************************)
(* RpcServerLink::binderDied and what it calls.  st holds the links, the   *)
(* servers and the owner's link set.                                       *)
(***************************************************************************)
RpcServer_shutdown(srv) == [srv EXCEPT !.shutdowns = @ + 1, !.started = FALSE]

\* removeRpcServerLink without the erase.
removeRpcServerLink_NoErase(set, l) == set

removeRpcServerLink(set, l) == IF mExtras = NULL THEN set ELSE set \ {l}

binderDied(st, l) ==
    LET lk == st.links[l]
        promoted == lk.mBinder
    IN [links |-> [st.links EXCEPT ![l] = [@ EXCEPT !.state = "died",
                                                      !.mRpcServer = NULL,
                                                      !.mBinder = FALSE]],
        servers |-> IF lk.mRpcServer = NULL
                    THEN st.servers
                    ELSE [st.servers EXCEPT ![lk.mRpcServer] = RpcServer_shutdown(@)],
        set |-> IF promoted THEN removeRpcServerLink(st.set, l) ELSE st.set]

RECURSIVE reportDeaths(_, _)
reportDeaths(st, ls) ==
    IF ls = {} THEN st
    ELSE LET l == CHOOSE x \in ls : \A y \in ls : x <= y
         IN reportDeaths(binderDied(st, l), ls \ {l})

(***************************************************************************)
(* The peer of keep-alive proxy k dies (BpBinder::sendObituary, not part   *)
(* of the sources): the proxy drops its registrations and calls binderDied *)
(* on every recipient that still exists.                                   *)
(***************************************************************************)
sendObituary(k) ==
    LET called == {l \in recipients[k] : links[l].state = "live"}
        st == reportDeaths([links |-> links, servers |-> servers,
                            set |-> mRpcServerLinks], called)
    IN
    /\ ~aborted
    /\ alive[k]
    /\ alive' = [alive EXCEPT ![k] = FALSE]
    /\ recipients' = [recipients EXCEPT ![k] = {}]
    /\ links' = st.links
    /\ servers' = st.servers
    /\ mRpcServerLinks' = st.set
    /\ lastOp' = Call("sendObituary", [k |-> k])
    /\ UNCHANGED <<mExtras, heap, mParceled, extrasFields, nextId, recVars,
                   aborted, apiFrame>>

\* startRecordingTransactions without the check of the calling uid.
startRecordingTransactions_AnyUid(call, uid, data) ==
    /\ WithExtras
    /\ IF mRecordingOn
       THEN /\ Returned(call, "INVALID_OPERATION")
            /\ UNCHANGED <<mRecordingOn, mRecordingFd>>
       ELSE IF readStatus(data, 1, "fd") # "OK"
       THEN /\ Returned(call, readStatus(data, 1, "fd"))
            /\ UNCHANGED <<mRecordingOn, mRecordingFd>>
       ELSE /\ mRecordingFd' = data[1].v
            /\ mRecordingOn' = TRUE
            /\ Returned(call, "OK")

\* startRecordingTransactions without the check that a recording is on.
startRecordingTransactions_Restart(call, uid, data) ==
    IF uid # kUidRoot
    THEN /\ Returned(call, "PERMISSION_DENIED")
         /\ UNCHANGED <<mExtras, heap, mRecordingOn, mRecordingFd>>
    ELSE /\ WithExtras
         /\ IF readStatus(data, 1, "fd") # "OK"
            THEN /\ Returned(call, readStatus(data, 1, "fd"))
                 /\ UNCHANGED <<mRecordingOn, mRecordingFd>>
            ELSE /\ mRecordingFd' = data[1].v
                 /\ mRecordingOn' = TRUE
                 /\ Returned(call, "OK")

(***************************************************************************)
(* Transaction recording.                                                  *)
(***************************************************************************)
startRecordingTransactions(call, uid, data) ==
    IF ~kEnableRecording \/ ~kEnableKernelIpc
    THEN /\ Returned(call, "INVALID_OPERATION")
         /\ UNCHANGED <<mExtras, heap, mRecordingOn, mRecordingFd>>
    ELSE IF uid # kUidRoot
    THEN /\ Returned(call, "PERMISSION_DENIED")
         /\ UNCHANGED <<mExtras, heap, mRecordingOn, mRecordingFd>>
    ELSE /\ WithExtras
         /\ IF mRecordingOn
            THEN /\ Returned(call, "INVALID_OPERATION")
                 /\ UNCHANGED <<mRecordingOn, mRecordingFd>>
            ELSE IF readStatus(data, 1, "fd") # "OK"
            THEN /\ Returned(call, readStatus(data, 1, "fd"))
                 /\ UNCHANGED <<mRecordingOn, mRecordingFd>>
            ELSE /\ mRecordingFd' = data[1].v
                 /\ mRecordingOn' = TRUE
                 /\ Returned(call, "OK")

stopRecordingTransactions(call, uid) ==
    IF ~kEnableRecording \/ ~kEnableKernelIpc
    THEN /\ Returned(call, "INVALID_OPERATION")
         /\ UNCHANGED <<mExtras, heap, mRecordingOn, mRecordingFd>>
    ELSE IF uid # kUidRoot
    THEN /\ Returned(call, "PERMISSION_DENIED")
         /\ UNCHANGED <<mExtras, heap, mRecordingOn, mRecordingFd>>
    ELSE /\ WithExtras
         /\ IF mRecordingOn
            THEN /\ mRecordingFd' = NoFd
                 /\ mRecordingOn' = FALSE
                 /\ Returned(call, "OK")
            ELSE /\ Returned(call, "INVALID_OPERATION")
                 /\ UNCHANGED <<mRecordingOn, mRecordingFd>>

(***************************************************************************)
(* BBinder::onTransact, the default handler.  sysprops is whether          *)
(* report_sysprop_change() succeeds.                                       *)
(***************************************************************************)
\* onTransact answering OK for a code it does not know.
onTransact_DefaultOK(code, hasReply, sysprops) ==
    CASE code = "INTERFACE_TRANSACTION" -> IF hasReply THEN "OK" ELSE "FATAL"
      [] code = "DUMP_TRANSACTION" -> "OK"
      [] code = "SHELL_COMMAND_TRANSACTION" -> "OK"
      [] code = "SYSPROPS_TRANSACTION" -> IF sysprops THEN "OK" ELSE "INVALID_OPERATION"
      [] OTHER -> "OK"

onTransact(code, hasReply, sysprops) ==
    CASE code = "INTERFACE_TRANSACTION" -> IF hasReply THEN "OK" ELSE "FATAL"
      [] code = "DUMP_TRANSACTION" -> "OK"
      [] code = "SHELL_COMMAND_TRANSACTION" -> "OK"
      [] code = "SYSPROPS_TRANSACTION" -> IF sysprops THEN "OK" ELSE "INVALID_OPERATION"
      [] OTHER -> "UNKNOWN_TRANSACTION"

Codes ==
    { "PING_TRANSACTION", "START_RECORDING_TRANSACTION", "STOP_RECORDING_TRANSACTION",
      "EXTENSION_TRANSACTION", "DEBUG_PID_TRANSACTION", "SET_RPC_CLIENT_TRANSACTION",
      "INTERFACE_TRANSACTION", "DUMP_TRANSACTION", "SHELL_COMMAND_TRANSACTION",
      "SYSPROPS_TRANSACTION", "FIRST_CALL_TRANSACTION" }

(***************************************************************************)
(* BBinder::transact.  sysprops is what report_sysprop_change() answers;    *)
(* written is whether the snapshot was built and dumped to the recording   *)
(* file.                                                                   *)
\* transact returning the status of a failed dump of the snapshot in place
\* of the status of the dispatch.
transact_ReturnsDumpStatus(code, data, hasReply, uid, sysprops) ==
    LET call == Call("transact", [code |-> code, uid |-> uid, data |-> data,
                                  hasReply |-> hasReply])
        err == CASE code = "PING_TRANSACTION" -> "OK"
                 [] code \in {"EXTENSION_TRANSACTION", "DEBUG_PID_TRANSACTION"} ->
                      IF hasReply THEN "OK" ELSE "FATAL"
                 [] OTHER -> onTransact(code, hasReply, sysprops)
    IN
    /\ UNCHANGED <<mParceled, extrasFields>>
    /\ CASE code = "START_RECORDING_TRANSACTION" ->
              /\ startRecordingTransactions(call, uid, data)
              /\ UNCHANGED <<rpcVars, recorded>>
         [] code = "STOP_RECORDING_TRANSACTION" ->
              /\ stopRecordingTransactions(call, uid)
              /\ UNCHANGED <<rpcVars, recorded>>
         [] code = "SET_RPC_CLIENT_TRANSACTION" ->
              /\ setRpcClientDebugParcel(call, uid, data)
              /\ UNCHANGED <<mRecordingOn, mRecordingFd, recorded>>
         [] OTHER ->
              /\ UNCHANGED <<mExtras, heap, rpcVars, mRecordingOn, mRecordingFd>>
              /\ IF err # "FATAL" /\ kEnableKernelIpc /\ mRecordingOn
                 THEN \E written \in BOOLEAN :
                        IF written
                        THEN /\ Returned(call, err)
                             /\ recorded' = Append(recorded,
                                               [fd |-> mRecordingFd, code |-> code,
                                                data |-> data, hasReply |-> hasReply,
                                                err |-> err])
                        ELSE /\ Returned(call, "UNKNOWN_ERROR")
                             /\ recorded' = recorded
                 ELSE /\ Returned(call, err)
                      /\ recorded' = recorded
    /\ Len(recorded') <= MaxRecorded

\* transact recording every transaction dispatched while a recording is on,
\* the one that started it included.
transact_RecordsStart(code, data, hasReply, uid, sysprops) ==
    LET call == Call("transact", [code |-> code, uid |-> uid, data |-> data,
                                  hasReply |-> hasReply])
    IN
    /\ UNCHANGED <<mParceled, extrasFields>>
    /\ CASE code = "PING_TRANSACTION" ->
              /\ Returned(call, "OK")
              /\ UNCHANGED <<mExtras, heap, rpcVars, mRecordingOn, mRecordingFd>>
         [] code = "START_RECORDING_TRANSACTION" ->
              /\ startRecordingTransactions(call, uid, data)
              /\ UNCHANGED rpcVars
         [] code = "STOP_RECORDING_TRANSACTION" ->
              /\ stopRecordingTransactions(call, uid)
              /\ UNCHANGED rpcVars
         [] code \in {"EXTENSION_TRANSACTION", "DEBUG_PID_TRANSACTION"} ->
              /\ Returned(call, IF hasReply THEN "OK" ELSE "FATAL")
              /\ UNCHANGED <<mExtras, heap, rpcVars, mRecordingOn, mRecordingFd>>
         [] code = "SET_RPC_CLIENT_TRANSACTION" ->
              /\ setRpcClientDebugParcel(call, uid, data)
              /\ UNCHANGED <<mRecordingOn, mRecordingFd>>
         [] OTHER ->
              /\ Returned(call, onTransact(code, hasReply, sysprops))
              /\ UNCHANGED <<mExtras, heap, rpcVars, mRecordingOn, mRecordingFd>>
    /\ IF /\ lastOp'.status # "FATAL"
          /\ kEnableKernelIpc /\ mRecordingOn'
       THEN \E written \in BOOLEAN :
              recorded' = IF written
                          THEN Append(recorded, [fd |-> mRecordingFd', code |-> code,
                                                 data |-> data, hasReply |-> hasReply,
                                                 err |-> lastOp'.status])
                          ELSE recorded
       ELSE recorded' = recorded
    /\ Len(recorded') <= MaxRecorded

(***************************************************************************)
transact(code, data, hasReply, uid, sysprops) ==
    LET call == Call("transact", [code |-> code, uid |-> uid, data |-> data,
                                  hasReply |-> hasReply])
    IN
    /\ UNCHANGED <<mParceled, extrasFields>>
    /\ CASE code = "PING_TRANSACTION" ->
              /\ Returned(call, "OK")
              /\ UNCHANGED <<mExtras, heap, rpcVars, mRecordingOn, mRecordingFd>>
         [] code = "START_RECORDING_TRANSACTION" ->
              /\ startRecordingTransactions(call, uid, data)
              /\ UNCHANGED rpcVars
         [] code = "STOP_RECORDING_TRANSACTION" ->
              /\ stopRecordingTransactions(call, uid)
              /\ UNCHANGED rpcVars
         [] code \in {"EXTENSION_TRANSACTION", "DEBUG_PID_TRANSACTION"} ->
              /\ Returned(call, IF hasReply THEN "OK" ELSE "FATAL")
              /\ UNCHANGED <<mExtras, heap, rpcVars, mRecordingOn, mRecordingFd>>
         [] code = "SET_RPC_CLIENT_TRANSACTION" ->
              /\ setRpcClientDebugParcel(call, uid, data)
              /\ UNCHANGED <<mRecordingOn, mRecordingFd>>
         [] OTHER ->
              /\ Returned(call, onTransact(code, hasReply, sysprops))
              /\ UNCHANGED <<mExtras, heap, rpcVars, mRecordingOn, mRecordingFd>>
    /\ IF /\ lastOp'.status # "FATAL"
          /\ kEnableKernelIpc /\ mRecordingOn' /\ code # "START_RECORDING_TRANSACTION"
       THEN \E written \in BOOLEAN :
              recorded' = IF written
                          THEN Append(recorded, [fd |-> mRecordingFd', code |-> code,
                                                 data |-> data, hasReply |-> hasReply,
                                                 err |-> lastOp'.status])
                          ELSE recorded
       ELSE recorded' = recorded
    /\ Len(recorded') <= MaxRecorded

(***************************************************************************)
(* The calls made on the object.  The inputs of a call and the answers of  *)
(* its collaborators are drawn from small sets.                            *)
(***************************************************************************)
\* Parcels sent with SET_RPC_CLIENT_TRANSACTION: well formed ones with and
\* without a socket and a keep-alive binder, and truncated ones.
RpcParcels ==
    { RpcParcel(TRUE, <<Item("fd", SocketFd)>>, <<Item("binder", k)>>) :
        k \in KeepAlives \cup {NULL} }
    \cup { RpcParcel(FALSE, <<>>, <<Item("binder", 1)>>),
           RpcParcel(TRUE, <<>>, <<Item("binder", 1)>>),
           RpcParcel(TRUE, <<Item("fd", SocketFd)>>, <<>>),
           <<>> }

\* Parcels sent with START_RECORDING_TRANSACTION.
RecordingParcels == { <<Item("fd", RecordingFd)>>, <<>> }

ParcelsOf(code) ==
    CASE code = "SET_RPC_CLIENT_TRANSACTION" -> RpcParcels
      [] code = "START_RECORDING_TRANSACTION" -> RecordingParcels
      [] OTHER -> { <<>> }

Transact(codes) ==
    \E code \in codes, hasReply \in BOOLEAN, uid \in Uids :
        \E data \in ParcelsOf(code),
           sysprops \in (IF code = "SYSPROPS_TRANSACTION" THEN BOOLEAN ELSE {TRUE}) :
            Api(transact(code, data, hasReply, uid, sysprops))

SetRpcClientDebug ==
    \E uid \in Uids, socketFd \in {NoFd, SocketFd}, k \in KeepAlives \cup {NULL} :
        Api(/\ setRpcClientDebugFd(Call("setRpcClientDebug",
                                        [uid |-> uid, socketFd |-> socketFd,
                                         keepAliveBinder |-> k]),
                                   socketFd, k)
            /\ UNCHANGED <<mParceled, extrasFields, recVars>>)

StartRecordingTransactions ==
    \E uid \in Uids, data \in RecordingParcels :
        Api(/\ startRecordingTransactions(Call("startRecordingTransactions",
                                               [uid |-> uid, data |-> data]), uid, data)
            /\ UNCHANGED <<mParceled, extrasFields, rpcVars, recorded>>)

StopRecordingTransactions ==
    \E uid \in Uids :
        Api(/\ stopRecordingTransactions(Call("stopRecordingTransactions",
                                              [uid |-> uid]), uid)
            /\ UNCHANGED <<mParceled, extrasFields, rpcVars, recorded>>)

SetRequestingSid == \E b \in BOOLEAN : Api(setRequestingSid(b) /\ UNCHANGED recorded)

SetInheritRt == \E b \in BOOLEAN : Api(setInheritRt(b) /\ UNCHANGED recorded)

SetMinSchedulerPolicy ==
    \E a \in SchedArgs : Api(setMinSchedulerPolicy(a[1], a[2]) /\ UNCHANGED recorded)

SetExtension == \E x \in Extensions : Api(setExtension(x) /\ UNCHANGED recorded)

SetParceled == Api(setParceled /\ UNCHANGED recorded)

SendObituary == \E k \in RemoteKeepAlives : sendObituary(k)

GoceInit ==
    /\ pc = [t \in Threads |-> "start"]
    /\ e = [t \in Threads |-> NULL]
    /\ expected = [t \in Threads |-> NULL]

BpInit ==
    /\ bp = [life |-> "unborn", mRemote |-> NULL, mRefs |-> NULL, mState |-> 0]
    /\ refs = [strong |-> 0, initial |-> TRUE, weak |-> 0]
    /\ remote = [strong |-> 1, weak |-> 0, callerHolds |-> TRUE]
    /\ tally = [ctorInc |-> 0, attemptInc |-> 0, lastDec |-> 0, dtorDec |-> 0,
                weakInc |-> 0, weakDec |-> 0, firstRefs |-> 0, lastRefs |-> 0]

\* struct Gesture (gestures.h): its type and the details the converter reads;
\* arg is the fling state of a fling, the zoom state of a pinch and whether
\* the deltas of a move are zero.
Gesture(type, down, up, is_tap, arg) ==
    [type |-> type, down |-> down, up |-> up, is_tap |-> is_tap, arg |-> arg]

NoGesture == Gesture("none", {}, {}, FALSE, "none")

\* GestureConverter::GestureConverter and the member initialisers; the
\* reader context is or is not preventing taps.
GestureInit ==
    /\ mCurrentClassification = "NONE"
    /\ mButtonState = {}
    /\ mDownTime = 0
    /\ mSwipeFingerCount = 0
    /\ mDisplayId = NoDisplay
    /\ preventingTaps \in BOOLEAN
    /\ gestureFatal = FALSE
    /\ gestureCall = [op |-> "none", when |-> 0, gesture |-> NoGesture]
    /\ gestureOut = <<>>
    /\ streamDown = FALSE

LockInit ==
    /\ mLock = NULL
    /\ inCall = [t \in Threads |-> [op |-> "none", pc |-> "idle"]]

\* No servicedispatcher process has been started.
NoProxyCall ==
    [op |-> "none", implStatus |-> "none", implRet |-> "none", status |-> "none",
     ret |-> "none", forwarded |-> FALSE]

NoArgv == [debuggable |-> FALSE, badOption |-> FALSE, g |-> FALSE, i |-> FALSE,
           operands |-> <<>>]

DispatcherInit ==
    /\ sdPc = "notStarted"
    /\ sdArgv = NoArgv
    /\ sdStdout = <<>>
    /\ sdStderr = <<>>
    /\ sdExit = "running"
    /\ sdAdbCallback = FALSE
    /\ sdPort = "none"
    /\ sdImplCalls = <<>>
    /\ sdCall = NoProxyCall

\* No IBinder has been constructed.
KindInit ==
    /\ kind = [b \in IBinders |-> "none"]
    /\ seen = [b \in IBinders |-> NotSeen]

\* A LayerLifecycleManager without layers.
NoLayer == [state |-> "none", handleAlive |-> FALSE, parentId |-> UNASSIGNED_LAYER_ID]

LayerInit ==
    /\ mIdToLayer = [l \in LayerIds |-> NoLayer]
    /\ mDestroyedLayers = {}
    /\ destroyedReports = [l \in LayerIds |-> 0]

\* The votes of SetFrameRateTest.
FRAME_RATE_VOTE1 == [rate |-> 67, type |-> "Default"]
FRAME_RATE_VOTE2 == [rate |-> 14, type |-> "ExactOrMultiple"]
FRAME_RATE_VOTE3 == [rate |-> 99, type |-> "NoVote"]
FRAME_RATE_TREE == [rate |-> 0, type |-> "NoVote"]
FRAME_RATE_NO_VOTE == [rate |-> 0, type |-> "Default"]

\* The layers of a test, created without parent and without vote.
FrameRateInit ==
    /\ mParent = [l \in TreeLayers |-> NoParent]
    /\ frameRate = [l \in TreeLayers |-> FRAME_RATE_NO_VOTE]
    /\ frameRateForLayerTree = [l \in TreeLayers |-> FRAME_RATE_NO_VOTE]
    /\ drawingFrameRateForLayerTree = [l \in TreeLayers |-> FRAME_RATE_NO_VOTE]

\* A FrameTimeline as constructed: an empty deque of the default size.
NewDisplayFrame == [wakeUp |-> FALSE, surfaceFrames |-> 0]

TimelineInit ==
    /\ mDisplayFrames = <<>>
    /\ mMaxDisplayFrames = DefaultMaxDisplayFrames
    /\ mCurrentDisplayFrame = NewDisplayFrame
    /\ presented = 0

\* Before the call: the keep-alive is alive, nothing is registered on it,
\* and the link set is empty.
LinkRaceInit ==
    /\ setupCall = [pc |-> "idle", status |-> "none"]
    /\ deathCall = [pc |-> "none", shutdown |-> "none"]
    /\ bridge = [mLock |-> "free", alive |-> TRUE, registered |-> FALSE,
                 setUp |-> FALSE, started |-> FALSE, mRpcServer |-> FALSE,
                 inSet |-> FALSE]

\* A BBinder without Extras and without recording, and no thread inside it.
IdleThread == [pc |-> "idle", code |-> "none", raced |-> FALSE, sawNull |-> FALSE]
NoWrite == [thread |-> NoThread, fd |-> ResetFd, locked |-> FALSE, on |-> FALSE]

RecRaceInit ==
    /\ recThread = [t \in RecThreads |-> IdleThread]
    /\ recShared = [mExtras |-> FALSE, mLock |-> NoThread, mRecordingOn |-> FALSE,
                    mRecordingFd |-> ResetFd, opened |-> 0, resetFds |-> {},
                    lastWrite |-> NoWrite, fatal |-> FALSE]

VirtualInit == onTransactCalls = <<>>

NoSession == [end |-> NoTime, bySource |-> [src \in UsageSources |-> NoTime],
              byUid |-> NoTime]

NoReports == [d \in MetricsDevices |-> 0]

\* InputDeviceMetricsCollector::InputDeviceMetricsCollector.
MetricsInit ==
    /\ mLoggedDeviceInfos = {}
    /\ mActiveUsageSessions = [d \in MetricsDevices |-> NoSession]
    /\ mInteractionsQueue = <<>>
    /\ mcNow = 0
    /\ mcReports = NoReports
    /\ mcNotified = FALSE
    /\ mcFatal = FALSE

NoAmCall == [op |-> "none", polled |-> FALSE, gaveUp |-> FALSE, foundDead |-> {},
             status |-> "none", called |-> NULL]

\* ActivityManager::ActivityManager, in a process that has been up for one
\* tick of the clock and whose activity service lives.
AmInit ==
    /\ mService = NULL
    /\ amAlive = AmBinders
    /\ amPoolStarted = FALSE
    /\ amPc = "idle"
    /\ amLock = FALSE
    /\ amService = NULL
    /\ amStartTime = 0
    /\ amClock = 1
    /\ amFoundDead = {}
    /\ amLast = NoAmCall

\* The GraphicsEnv singleton before any call.
GpuInit ==
    /\ mActivityLaunched = FALSE
    /\ appPackageName = ""
    /\ driverToSend = [api \in GpuApis |-> FALSE]
    /\ trySendGpuStatsThread = "none"
    /\ driverLoads = [api \in GpuApis |-> 0]
    /\ gpuBinder = "unchecked"
    /\ gpuStatsSent = [api \in GpuApis |-> 0]

\* TouchpadInputMapper::TouchpadInputMapper and the member initialisers of
\* TouchpadInputMapper.h.
TouchpadInit ==
    /\ tpPc = "idle"
    /\ mResettingInterpreter = FALSE
    /\ mGesturesToProcess = <<>>
    /\ mPointerCaptured = FALSE
    /\ mGestureInterpreter = "none"
    /\ tpDiscarded = 0
    /\ tpTrap = FALSE

Init ==
    /\ BBinderInit /\ EnvInit /\ GoceInit /\ BpInit /\ LockInit /\ GestureInit
    /\ DispatcherInit
    /\ KindInit
    /\ LayerInit
    /\ FrameRateInit
    /\ TimelineInit
    /\ LinkRaceInit
    /\ RecRaceInit
    /\ VirtualInit
    /\ TouchpadInit
    /\ MetricsInit
    /\ AmInit
    /\ GpuInit

(***************************************************************************)
(* Spec: the configuration calls (the setters of the unlocked Extras       *)
(* fields and setParceled).                                                *)
(***************************************************************************)
Next ==
    \/ SetRequestingSid
    \/ SetInheritRt
    \/ SetMinSchedulerPolicy
    \/ SetExtension
    \/ SetParceled

Spec == Init /\ [][Next]_vars

(***************************************************************************)
(* SpecRpc: the RPC-debug bridge, set up by a direct call or by a          *)
(* SET_RPC_CLIENT_TRANSACTION and torn down by the death of the keep-alive *)
(* binder.  setExtension stands for the calls that may have allocated the  *)
(* Extras before.                                                          *)
(***************************************************************************)
NextRpc ==
    \/ SetRpcClientDebug
    \/ Transact({"SET_RPC_CLIENT_TRANSACTION"})
    \/ SendObituary
    \/ SetExtension

SpecRpc == Init /\ [][NextRpc]_vars

(***************************************************************************)
(* SpecRec: transaction recording, started and stopped by direct calls or  *)
(* by transactions, and the transactions recorded.                         *)
(***************************************************************************)
NextRec ==
    \/ StartRecordingTransactions
    \/ StopRecordingTransactions
    \/ Transact(Codes \ {"SET_RPC_CLIENT_TRANSACTION"})
    \/ SetExtension

SpecRec == Init /\ [][NextRec]_vars

(***************************************************************************)
(* BBinder::getOrCreateExtras() statement by statement, as run by thread   *)
(* t: the acquire load, new Extras, the compare-exchange, and the loser's  *)
(* delete.  operator new hands out any address that is not live.           *)
(***************************************************************************)
goceFrame == <<mParceled, extrasFields, rpcVars, recVars, threadPoolMax, aborted,
               lastOp, bpVars, lockVars, gestureVars, laterVars>>

GoceLoad(t) ==
    /\ pc[t] = "start"
    /\ e' = [e EXCEPT ![t] = mExtras]
    /\ pc' = [pc EXCEPT ![t] = IF mExtras = NULL THEN "new" ELSE "done"]
    /\ UNCHANGED <<mExtras, heap, expected, goceFrame>>

GoceNew(t) ==
    /\ pc[t] = "new"
    /\ \E a \in Allocs :
         /\ heap[a] # "live"
         /\ heap' = [heap EXCEPT ![a] = "live"]
         /\ e' = [e EXCEPT ![t] = a]
    /\ expected' = [expected EXCEPT ![t] = NULL]
    /\ pc' = [pc EXCEPT ![t] = "cas"]
    /\ UNCHANGED <<mExtras, goceFrame>>

\* The publication of e as a plain store instead of a compare-exchange.
GoceCas_PlainStore(t) ==
    /\ pc[t] = "cas"
    /\ mExtras' = e[t]
    /\ pc' = [pc EXCEPT ![t] = "done"]
    /\ UNCHANGED <<heap, e, expected, goceFrame>>

GoceCas(t) ==
    /\ pc[t] = "cas"
    /\ IF mExtras = expected[t]
       THEN /\ mExtras' = e[t]
            /\ pc' = [pc EXCEPT ![t] = "done"]
            /\ UNCHANGED expected
       ELSE /\ expected' = [expected EXCEPT ![t] = mExtras]
            /\ pc' = [pc EXCEPT ![t] = "delete"]
            /\ UNCHANGED mExtras
    /\ UNCHANGED <<heap, e, goceFrame>>

GoceDelete(t) ==
    /\ pc[t] = "delete"
    /\ heap' = [heap EXCEPT ![e[t]] = "freed"]
    /\ e' = [e EXCEPT ![t] = expected[t]]
    /\ pc' = [pc EXCEPT ![t] = "done"]
    /\ UNCHANGED <<mExtras, expected, goceFrame>>

(***************************************************************************)
(* SpecExtras: every thread calls getOrCreateExtras once on a fresh        *)
(* BBinder, in any interleaving.                                           *)
(***************************************************************************)
NextExtras ==
    \E t \in Threads :
        \/ GoceLoad(t)
        \/ GoceNew(t)
        \/ GoceCas(t)
        \/ GoceDelete(t)

SpecExtras == Init /\ [][NextExtras]_vars

(***************************************************************************)
(* BpRefBase.  w is the world a method acts on: the proxy, the counts of   *)
(* its remote and the tally of what the proxy did to them.  mState holds   *)
(* the one bit kRemoteAcquired.  The remote is binder 1.                   *)
(***************************************************************************)
World == [bp |-> bp, remote |-> remote, tally |-> tally]

BpRefBase_ctor(w, o) ==
    LET w1 == [w EXCEPT !.bp = [life |-> "alive", mRemote |-> o, mRefs |-> NULL,
                                mState |-> 0]]
    IN IF o # NULL
       THEN [w1 EXCEPT !.remote.strong = @ + 1, !.tally.ctorInc = @ + 1,
                       !.bp.mRefs = o,
                       !.remote.weak = @ + 1, !.tally.weakInc = @ + 1]
       ELSE w1

\* ~BpRefBase that releases the strong reference whatever mState says.
BpRefBase_dtor_AlwaysRelease(w) ==
    LET w1 == [w EXCEPT !.bp.life = "destroyed"]
    IN IF w.bp.mRemote # NULL
       THEN [w1 EXCEPT !.remote.strong = @ - 1, !.tally.dtorDec = @ + 1,
                       !.remote.weak = @ - 1, !.tally.weakDec = @ + 1]
       ELSE w1

\* ~BpRefBase that never releases the strong reference.
BpRefBase_dtor_NeverRelease(w) ==
    LET w1 == [w EXCEPT !.bp.life = "destroyed"]
    IN IF w.bp.mRemote # NULL
       THEN [w1 EXCEPT !.remote.weak = @ - 1, !.tally.weakDec = @ + 1]
       ELSE w1

BpRefBase_dtor(w) ==
    LET w1 == [w EXCEPT !.bp.life = "destroyed"]
        w2 == IF w.bp.mState % 2 = kRemoteAcquired
              THEN w1
              ELSE [w1 EXCEPT !.remote.strong = @ - 1, !.tally.dtorDec = @ + 1]
    IN IF w.bp.mRemote # NULL
       THEN [w2 EXCEPT !.remote.weak = @ - 1, !.tally.weakDec = @ + 1]
       ELSE w1

\* onFirstRef without the transfer of the constructor's reference.
onFirstRef_NoTransfer(w) == [w EXCEPT !.tally.firstRefs = @ + 1]

onFirstRef(w) ==
    [w EXCEPT !.bp.mState = kRemoteAcquired, !.tally.firstRefs = @ + 1]

onLastStrongRef(w) ==
    LET w1 == [w EXCEPT !.tally.lastRefs = @ + 1]
    IN IF w.bp.mRemote # NULL
       THEN [w1 EXCEPT !.remote.strong = @ - 1, !.tally.lastDec = @ + 1]
       ELSE w1

\* weakref_type::attemptIncStrong on the remote (RefBase, not part of the
\* sources): it succeeds while the remote still has a strong reference.
attemptIncStrong(w) ==
    IF w.remote.strong > 0
    THEN [ok |-> TRUE, w |-> [w EXCEPT !.remote.strong = @ + 1,
                                       !.tally.attemptInc = @ + 1]]
    ELSE [ok |-> FALSE, w |-> w]

onIncStrongAttempted(w) ==
    IF w.bp.mRemote # NULL THEN attemptIncStrong(w) ELSE [ok |-> FALSE, w |-> w]

(***************************************************************************)
(* The RefBase runtime driving the proxy (system/core libutils, not part   *)
(* of the sources).  The proxy has OBJECT_LIFETIME_WEAK: it is destroyed   *)
(* when its last weak reference goes; every strong reference also counts   *)
(* as a weak one.  refs.weak counts the wp<> held, refs.initial is the     *)
(* strong count still being INITIAL_STRONG_VALUE.                          *)
(***************************************************************************)
bpFrame == <<binderVars, lastOp, goceVars, lockVars, gestureVars, laterVars>>

Became(w) ==
    /\ bp' = w.bp
    /\ remote' = w.remote
    /\ tally' = w.tally

\* new BpRefBase(o), by a caller that holds o.
Construct(o) ==
    /\ bp.life = "unborn"
    /\ Became(BpRefBase_ctor(World, o))
    /\ UNCHANGED <<refs, bpFrame>>

\* RefBase::incStrong: the first one calls onFirstRef.
IncStrong ==
    /\ bp.life = "alive"
    /\ refs.initial \/ refs.strong > 0
    /\ refs.strong < MaxRefs
    /\ refs' = [refs EXCEPT !.strong = @ + 1, !.initial = FALSE]
    /\ Became(IF refs.initial THEN onFirstRef(World) ELSE World)
    /\ UNCHANGED bpFrame

\* RefBase::decStrong: the last one calls onLastStrongRef, and the
\* destructor when no weak reference is left.
DecStrong ==
    /\ bp.life = "alive"
    /\ refs.strong > 0
    /\ refs' = [refs EXCEPT !.strong = @ - 1]
    /\ Became(IF refs.strong > 1 THEN World
              ELSE IF refs.weak > 0 THEN onLastStrongRef(World)
              ELSE BpRefBase_dtor(onLastStrongRef(World)))
    /\ UNCHANGED bpFrame

\* A wp<> to the proxy is made.
IncWeak ==
    /\ bp.life = "alive"
    /\ refs.weak < MaxRefs
    /\ refs' = [refs EXCEPT !.weak = @ + 1]
    /\ UNCHANGED <<bp, remote, tally, bpFrame>>

\* weakref_type::decWeak: the last reference of all destroys the proxy.
DecWeak ==
    /\ bp.life = "alive"
    /\ refs.weak > 0
    /\ refs' = [refs EXCEPT !.weak = @ - 1]
    /\ Became(IF refs.weak = 1 /\ refs.strong = 0 THEN BpRefBase_dtor(World) ELSE World)
    /\ UNCHANGED bpFrame

\* wp<>::promote, weakref_type::attemptIncStrong on the proxy: with no
\* strong reference it asks onIncStrongAttempted; onFirstRef is not called.
Promote ==
    /\ bp.life = "alive"
    /\ refs.weak > 0
    /\ refs.strong < MaxRefs
    /\ IF refs.strong > 0
       THEN /\ refs' = [refs EXCEPT !.strong = @ + 1]
            /\ UNCHANGED <<bp, remote, tally>>
       ELSE /\ tally.attemptInc < MaxRevivals
            /\ Became(onIncStrongAttempted(World).w)
            /\ refs' = IF onIncStrongAttempted(World).ok
                       THEN [refs EXCEPT !.strong = 1, !.initial = FALSE]
                       ELSE refs
    /\ UNCHANGED bpFrame

\* delete of a proxy nothing ever referenced.
Delete ==
    /\ bp.life = "alive"
    /\ refs.initial /\ refs.strong = 0 /\ refs.weak = 0
    /\ Became(BpRefBase_dtor(World))
    /\ UNCHANGED <<refs, bpFrame>>

\* The caller that constructed the proxy drops its own sp<IBinder>.
CallerRelease ==
    /\ bp.life # "unborn"
    /\ remote.callerHolds
    /\ remote' = [remote EXCEPT !.strong = @ - 1, !.callerHolds = FALSE]
    /\ UNCHANGED <<bp, refs, tally, bpFrame>>

(***************************************************************************)
(* SpecBp: one BpRefBase from construction to destruction.                 *)
(***************************************************************************)
NextBp ==
    \/ \E o \in {NULL, 1} : Construct(o)
    \/ IncStrong
    \/ DecStrong
    \/ IncWeak
    \/ DecWeak
    \/ Promote
    \/ Delete
    \/ CallerRelease

SpecBp == Init /\ [][NextBp]_vars

(***************************************************************************)
(* GestureConverter (services/inputflinger/reader/mapper/gestures).  A      *)
(* handler is a function of the converter g (its members and the reader    *)
(* context's tap prevention) giving the converter after the call and the   *)
(* events returned.  Button masks are the sets of their bits.  Coordinates, *)
(* axis values and the pointer controller are left out.                    *)
(***************************************************************************)
Converter ==
    [mCurrentClassification |-> mCurrentClassification, mButtonState |-> mButtonState,
     mDownTime |-> mDownTime, mSwipeFingerCount |-> mSwipeFingerCount,
     preventingTaps |-> preventingTaps, fatal |-> FALSE]

gesturesButtonToMotionEventButton(gesturesButton) ==
    CASE gesturesButton = GESTURES_BUTTON_LEFT -> AMOTION_EVENT_BUTTON_PRIMARY
      [] gesturesButton = GESTURES_BUTTON_MIDDLE -> AMOTION_EVENT_BUTTON_TERTIARY
      [] gesturesButton = GESTURES_BUTTON_RIGHT -> AMOTION_EVENT_BUTTON_SECONDARY
      [] gesturesButton = GESTURES_BUTTON_BACK -> AMOTION_EVENT_BUTTON_BACK
      [] gesturesButton = GESTURES_BUTTON_FORWARD -> AMOTION_EVENT_BUTTON_FORWARD
      [] OTHER -> 0

\* TouchCursorInputMapperCommon.h
isPointerDown(buttonState) ==
    buttonState \cap {AMOTION_EVENT_BUTTON_PRIMARY, AMOTION_EVENT_BUTTON_SECONDARY,
                      AMOTION_EVENT_BUTTON_TERTIARY} # {}

\* The bits of a mask in the order of "for (button = 1; ...; button <<= 1)".
RECURSIVE BitsInOrder(_)
BitsInOrder(mask) ==
    IF mask = {} THEN <<>>
    ELSE LET b == CHOOSE x \in mask : \A y \in mask : x <= y
         IN <<b>> \o BitsInOrder(mask \ {b})

\* pointerIndex is the index in the action of a POINTER_DOWN or POINTER_UP.
makeMotionArgs(g, action, pointerIndex, actionButton, buttonState, pointerCount) ==
    [action |-> action, pointerIndex |-> pointerIndex, actionButton |-> actionButton,
     buttonState |-> buttonState, classification |-> g.mCurrentClassification,
     pointerCount |-> pointerCount, downTime |-> g.mDownTime, displayId |-> mDisplayId]

enableTapToClick(g) == [g EXCEPT !.preventingTaps = FALSE]

Result(g, out) == [g |-> g, out |-> out]

handleMove(g, nonZero) ==
    LET g1 == IF ENABLE_TOUCHPAD_PALM_REJECTION /\ nonZero THEN enableTapToClick(g) ELSE g
        down == isPointerDown(g1.mButtonState)
    IN Result(g1, <<makeMotionArgs(g1, IF down THEN "MOVE" ELSE "HOVER_MOVE", 0, 0,
                                   g1.mButtonState, 1)>>)


\* handleButtonsChange splicing the press events in front of ACTION_DOWN.
handleButtonsChange_PressBeforeDown(g, when, gesture) ==
    LET prevented == ENABLE_TOUCHPAD_PALM_REJECTION /\ g.preventingTaps
        g0 == IF prevented THEN enableTapToClick(g) ELSE g
        pressed == BitsInOrder(gesture.down)
        PressState(i) ==
            g0.mButtonState
                \cup {gesturesButtonToMotionEventButton(pressed[j]) : j \in 1..i}
        afterPress == PressState(Len(pressed))
        pressEvents ==
            [i \in 1..Len(pressed) |->
                makeMotionArgs(g0, "BUTTON_PRESS", 0,
                               gesturesButtonToMotionEventButton(pressed[i]),
                               PressState(i), 1)]
        goesDown == ~isPointerDown(g0.mButtonState) /\ isPointerDown(afterPress)
        g1 == IF goesDown THEN [g0 EXCEPT !.mDownTime = when] ELSE g0
        downEvents == IF goesDown
                      THEN <<makeMotionArgs(g1, "DOWN", 0, 0, afterPress, 1)>>
                      ELSE <<>>
        g2 == [g1 EXCEPT !.mButtonState = afterPress]
        released == BitsInOrder(gesture.up)
        ReleaseState(i) ==
            afterPress \ {gesturesButtonToMotionEventButton(released[j]) : j \in 1..i}
        final == ReleaseState(Len(released))
        releaseEvents ==
            [i \in 1..Len(released) |->
                makeMotionArgs(g2, "BUTTON_RELEASE", 0,
                               gesturesButtonToMotionEventButton(released[i]),
                               ReleaseState(i), 1)]
        goesUp == isPointerDown(afterPress) /\ ~isPointerDown(final)
        upEvents == IF goesUp
                    THEN <<makeMotionArgs(g2, "UP", 0, 0, final, 1),
                           makeMotionArgs(g2, "HOVER_MOVE", 0, 0, final, 1)>>
                    ELSE <<>>
    IN IF prevented /\ gesture.is_tap
       THEN Result(g0, <<>>)
       ELSE Result([g2 EXCEPT !.mButtonState = final],
                   pressEvents \o downEvents \o releaseEvents \o upEvents)

\* handleButtonsChange without the call of enableTapToClick.
handleButtonsChange_KeepsPreventingTaps(g, when, gesture) ==
    LET prevented == ENABLE_TOUCHPAD_PALM_REJECTION /\ g.preventingTaps
        g0 == g
        pressed == BitsInOrder(gesture.down)
        PressState(i) ==
            g0.mButtonState
                \cup {gesturesButtonToMotionEventButton(pressed[j]) : j \in 1..i}
        afterPress == PressState(Len(pressed))
        pressEvents ==
            [i \in 1..Len(pressed) |->
                makeMotionArgs(g0, "BUTTON_PRESS", 0,
                               gesturesButtonToMotionEventButton(pressed[i]),
                               PressState(i), 1)]
        goesDown == ~isPointerDown(g0.mButtonState) /\ isPointerDown(afterPress)
        g1 == IF goesDown THEN [g0 EXCEPT !.mDownTime = when] ELSE g0
        downEvents == IF goesDown
                      THEN <<makeMotionArgs(g1, "DOWN", 0, 0, afterPress, 1)>>
                      ELSE <<>>
        g2 == [g1 EXCEPT !.mButtonState = afterPress]
        released == BitsInOrder(gesture.up)
        ReleaseState(i) ==
            afterPress \ {gesturesButtonToMotionEventButton(released[j]) : j \in 1..i}
        final == ReleaseState(Len(released))
        releaseEvents ==
            [i \in 1..Len(released) |->
                makeMotionArgs(g2, "BUTTON_RELEASE", 0,
                               gesturesButtonToMotionEventButton(released[i]),
                               ReleaseState(i), 1)]
        goesUp == isPointerDown(afterPress) /\ ~isPointerDown(final)
        upEvents == IF goesUp
                    THEN <<makeMotionArgs(g2, "UP", 0, 0, final, 1),
                           makeMotionArgs(g2, "HOVER_MOVE", 0, 0, final, 1)>>
                    ELSE <<>>
    IN IF prevented /\ gesture.is_tap
       THEN Result(g0, <<>>)
       ELSE Result([g2 EXCEPT !.mButtonState = final],
                   downEvents \o pressEvents \o releaseEvents \o upEvents)

handleButtonsChange(g, when, gesture) ==
    LET prevented == ENABLE_TOUCHPAD_PALM_REJECTION /\ g.preventingTaps
        g0 == IF prevented THEN enableTapToClick(g) ELSE g
        pressed == BitsInOrder(gesture.down)
        PressState(i) ==
            g0.mButtonState
                \cup {gesturesButtonToMotionEventButton(pressed[j]) : j \in 1..i}
        afterPress == PressState(Len(pressed))
        pressEvents ==
            [i \in 1..Len(pressed) |->
                makeMotionArgs(g0, "BUTTON_PRESS", 0,
                               gesturesButtonToMotionEventButton(pressed[i]),
                               PressState(i), 1)]
        goesDown == ~isPointerDown(g0.mButtonState) /\ isPointerDown(afterPress)
        g1 == IF goesDown THEN [g0 EXCEPT !.mDownTime = when] ELSE g0
        downEvents == IF goesDown
                      THEN <<makeMotionArgs(g1, "DOWN", 0, 0, afterPress, 1)>>
                      ELSE <<>>
        g2 == [g1 EXCEPT !.mButtonState = afterPress]
        released == BitsInOrder(gesture.up)
        ReleaseState(i) ==
            afterPress \ {gesturesButtonToMotionEventButton(released[j]) : j \in 1..i}
        final == ReleaseState(Len(released))
        releaseEvents ==
            [i \in 1..Len(released) |->
                makeMotionArgs(g2, "BUTTON_RELEASE", 0,
                               gesturesButtonToMotionEventButton(released[i]),
                               ReleaseState(i), 1)]
        goesUp == isPointerDown(afterPress) /\ ~isPointerDown(final)
        upEvents == IF goesUp
                    THEN <<makeMotionArgs(g2, "UP", 0, 0, final, 1),
                           makeMotionArgs(g2, "HOVER_MOVE", 0, 0, final, 1)>>
                    ELSE <<>>
    IN IF prevented /\ gesture.is_tap
       THEN Result(g0, <<>>)
       ELSE Result([g2 EXCEPT !.mButtonState = final],
                   downEvents \o pressEvents \o releaseEvents \o upEvents)

releaseAllButtons(g) ==
    LET pointerDown == isPointerDown(g.mButtonState)
        held == BitsInOrder(g.mButtonState)
        StateAfter(i) == g.mButtonState \ {held[j] : j \in 1..i}
        releaseEvents ==
            [i \in 1..Len(held) |->
                makeMotionArgs(g, "BUTTON_RELEASE", 0, held[i], StateAfter(i), 1)]
        upEvents == IF pointerDown
                    THEN <<makeMotionArgs(g, "UP", 0, 0, StateAfter(Len(held)), 1)>>
                    ELSE <<>>
    IN Result([g EXCEPT !.mButtonState = {}], releaseEvents \o upEvents)

handleScroll(g, when) ==
    LET starts == g.mCurrentClassification # "TWO_FINGER_SWIPE"
        g1 == IF starts
              THEN [g EXCEPT !.mCurrentClassification = "TWO_FINGER_SWIPE",
                             !.mDownTime = when]
              ELSE g
        downEvents == IF starts
                      THEN <<makeMotionArgs(g1, "DOWN", 0, 0, g1.mButtonState, 1)>>
                      ELSE <<>>
    IN Result(g1, downEvents \o <<makeMotionArgs(g1, "MOVE", 0, 0, g1.mButtonState, 1)>>)

\* endScroll keeping the classification of the scroll.
endScroll_KeepsClassification(g) ==
    Result(g, <<makeMotionArgs(g, "UP", 0, 0, g.mButtonState, 1)>>)

endScroll(g) ==
    Result([g EXCEPT !.mCurrentClassification = "NONE"],
           <<makeMotionArgs(g, "UP", 0, 0, g.mButtonState, 1)>>)

handleFling(g, fling_state) ==
    CASE fling_state = "GESTURES_FLING_START"
             /\ g.mCurrentClassification = "TWO_FINGER_SWIPE" ->
           endScroll(g)
      [] fling_state = "GESTURES_FLING_TAP_DOWN" /\ g.mCurrentClassification = "NONE" ->
           handleMove(IF ~g.preventingTaps THEN enableTapToClick(g) ELSE g, FALSE)
      [] OTHER -> Result(g, <<>>)

handleMultiFingerSwipe(g, when, fingerCount) ==
    LET starts == g.mCurrentClassification # "MULTI_FINGER_SWIPE"
        g1 == IF starts
              THEN [g EXCEPT !.mCurrentClassification = "MULTI_FINGER_SWIPE",
                             !.mSwipeFingerCount = fingerCount,
                             !.mDownTime = when]
              ELSE g
        downEvents ==
            IF starts
            THEN <<makeMotionArgs(g1, "DOWN", 0, 0, g1.mButtonState, 1)>>
                 \o [i \in 1..(g1.mSwipeFingerCount - 1) |->
                        makeMotionArgs(g1, "POINTER_DOWN", i, 0, g1.mButtonState, i + 1)]
            ELSE <<>>
    IN Result(g1, downEvents
                  \o <<makeMotionArgs(g1, "MOVE", 0, 0, g1.mButtonState,
                                      g1.mSwipeFingerCount)>>)

\* handleMultiFingerSwipeLift lifting the fake fingers from the first to the
\* last.
handleMultiFingerSwipeLift_Ascending(g) ==
    IF g.mCurrentClassification # "MULTI_FINGER_SWIPE"
    THEN Result(g, <<>>)
    ELSE Result([g EXCEPT !.mCurrentClassification = "NONE", !.mSwipeFingerCount = 0],
                [k \in 1..(g.mSwipeFingerCount - 1) |->
                    makeMotionArgs(g, "POINTER_UP", k, 0, g.mButtonState, k + 1)]
                \o <<makeMotionArgs(g, "UP", 0, 0, g.mButtonState, 1)>>)

\* The k-th pass of "for (i = mSwipeFingerCount; i > 1; i--)" has
\* i = mSwipeFingerCount + 1 - k.
handleMultiFingerSwipeLift(g) ==
    IF g.mCurrentClassification # "MULTI_FINGER_SWIPE"
    THEN Result(g, <<>>)
    ELSE Result([g EXCEPT !.mCurrentClassification = "NONE", !.mSwipeFingerCount = 0],
                [k \in 1..(g.mSwipeFingerCount - 1) |->
                    makeMotionArgs(g, "POINTER_UP", g.mSwipeFingerCount - k, 0,
                                   g.mButtonState, g.mSwipeFingerCount + 1 - k)]
                \o <<makeMotionArgs(g, "UP", 0, 0, g.mButtonState, 1)>>)

endPinch(g) ==
    Result([g EXCEPT !.mCurrentClassification = "NONE"],
           <<makeMotionArgs(g, "POINTER_UP", 1, 0, g.mButtonState, 2),
             makeMotionArgs(g, "UP", 0, 0, g.mButtonState, 1)>>)

handlePinch(g, when, zoom_state) ==
    IF g.mCurrentClassification # "PINCH"
    THEN IF zoom_state # "GESTURES_ZOOM_START"
         THEN Result([g EXCEPT !.fatal = TRUE], <<>>)
         ELSE LET g1 == [g EXCEPT !.mCurrentClassification = "PINCH", !.mDownTime = when]
              IN Result(g1, <<makeMotionArgs(g1, "DOWN", 0, 0, g1.mButtonState, 1),
                              makeMotionArgs(g1, "POINTER_DOWN", 1, 0, g1.mButtonState, 2)>>)
    ELSE IF zoom_state = "GESTURES_ZOOM_END"
    THEN endPinch(g)
    ELSE Result(g, <<makeMotionArgs(g, "MOVE", 0, 0, g.mButtonState, 2)>>)

handleGesture(g, when, gesture) ==
    IF mDisplayId = NoDisplay
    THEN Result(g, <<>>)
    ELSE CASE gesture.type = "kGestureTypeMove" -> handleMove(g, gesture.arg = "nonzero")
           [] gesture.type = "kGestureTypeButtonsChange" ->
                handleButtonsChange(g, when, gesture)
           [] gesture.type = "kGestureTypeScroll" -> handleScroll(g, when)
           [] gesture.type = "kGestureTypeFling" -> handleFling(g, gesture.arg)
           [] gesture.type = "kGestureTypeSwipe" -> handleMultiFingerSwipe(g, when, 3)
           [] gesture.type = "kGestureTypeFourFingerSwipe" ->
                handleMultiFingerSwipe(g, when, 4)
           [] gesture.type \in {"kGestureTypeSwipeLift", "kGestureTypeFourFingerSwipeLift"} ->
                handleMultiFingerSwipeLift(g)
           [] gesture.type = "kGestureTypePinch" -> handlePinch(g, when, gesture.arg)
           [] OTHER -> Result(g, <<>>)

\* reset leaving the down time as it is.
reset_KeepsDownTime(g) ==
    LET r == CASE g.mCurrentClassification = "TWO_FINGER_SWIPE" -> endScroll(g)
               [] g.mCurrentClassification = "MULTI_FINGER_SWIPE" ->
                    handleMultiFingerSwipeLift(g)
               [] g.mCurrentClassification = "PINCH" -> endPinch(g)
               [] g.mCurrentClassification = "NONE" ->
                    IF g.mButtonState # {} THEN releaseAllButtons(g) ELSE Result(g, <<>>)
               [] OTHER -> Result(g, <<>>)
    IN Result([r.g EXCEPT !.mCurrentClassification = "NONE"], r.out)

reset(g) ==
    LET r == CASE g.mCurrentClassification = "TWO_FINGER_SWIPE" -> endScroll(g)
               [] g.mCurrentClassification = "MULTI_FINGER_SWIPE" ->
                    handleMultiFingerSwipeLift(g)
               [] g.mCurrentClassification = "PINCH" -> endPinch(g)
               [] g.mCurrentClassification = "NONE" ->
                    IF g.mButtonState # {} THEN releaseAllButtons(g) ELSE Result(g, <<>>)
               [] OTHER -> Result(g, <<>>)
    IN Result([r.g EXCEPT !.mCurrentClassification = "NONE", !.mDownTime = 0], r.out)

(***************************************************************************)
(* SpecGesture: one GestureConverter given a display, then driven by        *)
(* gestures and resets while the reader context may start preventing taps. *)
(***************************************************************************)
\* The buttons one buttons-change gesture reports as going down and going up;
\* a tap is a press and release of the same buttons.
ButtonsChanges ==
    { c \in (SUBSET GesturesButtons) \X (SUBSET GesturesButtons) :
        Cardinality(c[1] \cup c[2]) <= MaxButtonsPerGesture }

Gestures ==
    { Gesture("kGestureTypeMove", {}, {}, FALSE, a) : a \in {"zero", "nonzero"} }
    \cup { Gesture("kGestureTypeButtonsChange", c[1], c[2], FALSE, "none") :
             c \in ButtonsChanges }
    \cup { Gesture("kGestureTypeButtonsChange", b, b, TRUE, "none") :
             b \in { x \in SUBSET GesturesButtons :
                        x # {} /\ Cardinality(x) <= MaxButtonsPerGesture } }
    \cup { Gesture("kGestureTypeFling", {}, {}, FALSE, a) :
             a \in {"GESTURES_FLING_START", "GESTURES_FLING_TAP_DOWN"} }
    \cup { Gesture("kGestureTypePinch", {}, {}, FALSE, a) :
             a \in {"GESTURES_ZOOM_START", "GESTURES_ZOOM_UPDATE", "GESTURES_ZOOM_END"} }
    \cup { Gesture(t, {}, {}, FALSE, "none") :
             t \in {"kGestureTypeScroll", "kGestureTypeSwipe", "kGestureTypeFourFingerSwipe",
                    "kGestureTypeSwipeLift", "kGestureTypeFourFingerSwipeLift",
                    "kGestureTypeMetrics"} }

gestureFrame == <<binderVars, lastOp, goceVars, bpVars, lockVars, laterVars>>

\* Whether the events returned so far end with a pointer down, given that
\* they did (down) before out was returned.
RECURSIVE StreamAfter(_, _)
StreamAfter(down, out) ==
    IF out = <<>> THEN down
    ELSE StreamAfter(CASE Head(out).action = "DOWN" -> TRUE
                       [] Head(out).action = "UP" -> FALSE
                       [] OTHER -> down,
                     Tail(out))

\* The call leaves the converter as r.g and returns r.out.
Returns(r) ==
    /\ streamDown' = StreamAfter(streamDown, r.out)
    /\ mCurrentClassification' = r.g.mCurrentClassification
    /\ mButtonState' = r.g.mButtonState
    /\ mDownTime' = r.g.mDownTime
    /\ mSwipeFingerCount' = r.g.mSwipeFingerCount
    /\ preventingTaps' = r.g.preventingTaps
    /\ gestureFatal' = r.g.fatal
    /\ gestureOut' = r.out

HandleGesture ==
    \E when \in Times, gesture \in Gestures :
        /\ ~gestureFatal
        /\ Returns(handleGesture(Converter, when, gesture))
        /\ gestureCall' = [op |-> "handleGesture", when |-> when, gesture |-> gesture]
        /\ UNCHANGED <<mDisplayId, gestureFrame>>

Reset ==
    \E when \in Times :
        /\ ~gestureFatal
        /\ Returns(reset(Converter))
        /\ gestureCall' = [op |-> "reset", when |-> when, gesture |-> NoGesture]
        /\ UNCHANGED <<mDisplayId, gestureFrame>>

SetDisplayId ==
    /\ ~gestureFatal
    /\ mDisplayId = NoDisplay
    /\ mDisplayId' = ADISPLAY_ID_DEFAULT
    /\ gestureCall' = [op |-> "setDisplayId", when |-> 0, gesture |-> NoGesture]
    /\ gestureOut' = <<>>
    /\ UNCHANGED <<mCurrentClassification, mButtonState, mDownTime, mSwipeFingerCount,
                   preventingTaps, gestureFatal, streamDown, gestureFrame>>

\* The reader context starts preventing taps (a key was typed).
SetPreventingTouchpadTaps ==
    /\ ~gestureFatal
    /\ ~preventingTaps
    /\ preventingTaps' = TRUE
    /\ gestureCall' = [op |-> "setPreventingTouchpadTaps", when |-> 0, gesture |-> NoGesture]
    /\ gestureOut' = <<>>
    /\ UNCHANGED <<mCurrentClassification, mButtonState, mDownTime, mSwipeFingerCount,
                   mDisplayId, gestureFatal, streamDown, gestureFrame>>

NextGesture ==
    \/ HandleGesture
    \/ Reset
    \/ SetDisplayId
    \/ SetPreventingTouchpadTaps

SpecGesture == Init /\ [][NextGesture]_vars

(***************************************************************************)
(* SpecLock: threads inside the accessors of the Extras fields.  For each  *)
(* accessor: the field it reads or writes, how it gets the Extras pointer  *)
(* ("create": getOrCreateExtras; "default": a load, and getOrCreateExtras  *)
(* when the load gives null and the value to store is not the default;     *)
(* "load": a load, returning at once when it gives null) and whether it    *)
(* takes Extras::mLock before the access.                                  *)
(***************************************************************************)
Accessor(op, field, extras, locks) ==
    [op |-> op, field |-> field, extras |-> extras, locks |-> locks]

Access_attachObject == Accessor("attachObject", "mObjects", "create", TRUE)
Access_findObject == Accessor("findObject", "mObjects", "load", TRUE)
Access_detachObject == Accessor("detachObject", "mObjects", "load", TRUE)
Access_lookupOrCreateWeak == Accessor("lookupOrCreateWeak", "mObjects", "create", TRUE)
Access_isRequestingSid == Accessor("isRequestingSid", "mRequestingSid", "load", FALSE)
Access_setRequestingSid == Accessor("setRequestingSid", "mRequestingSid", "default", FALSE)
Access_getExtension == Accessor("getExtension", "mExtension", "load", FALSE)
Access_setMinSchedulerPolicy ==
    Accessor("setMinSchedulerPolicy", "mPolicy", "default", FALSE)
Access_getMinSchedulerPolicy == Accessor("getMinSchedulerPolicy", "mPolicy", "load", FALSE)
Access_getMinSchedulerPriority ==
    Accessor("getMinSchedulerPriority", "mPriority", "load", FALSE)
Access_isInheritRt == Accessor("isInheritRt", "mInheritRt", "load", FALSE)
Access_setInheritRt == Accessor("setInheritRt", "mInheritRt", "default", FALSE)
Access_setExtension == Accessor("setExtension", "mExtension", "create", FALSE)
Access_startRecordingTransactions ==
    Accessor("startRecordingTransactions", "mRecordingFd", "create", TRUE)
Access_stopRecordingTransactions ==
    Accessor("stopRecordingTransactions", "mRecordingFd", "create", TRUE)
Access_transact == Accessor("transact", "mRecordingFd", "load", TRUE)
Access_setRpcClientDebug ==
    Accessor("setRpcClientDebug", "mRpcServerLinks", "create", TRUE)
\* removeRpcServerLink erasing from the set without Extras::mLock.
Access_removeRpcServerLink_Unlocked ==
    Accessor("removeRpcServerLink", "mRpcServerLinks", "load", FALSE)
Access_removeRpcServerLink ==
    Accessor("removeRpcServerLink", "mRpcServerLinks", "load", TRUE)

Accessors ==
    { Access_attachObject, Access_findObject, Access_detachObject,
      Access_lookupOrCreateWeak, Access_isRequestingSid, Access_setRequestingSid,
      Access_getExtension, Access_setMinSchedulerPolicy, Access_getMinSchedulerPolicy,
      Access_getMinSchedulerPriority, Access_isInheritRt, Access_setInheritRt,
      Access_setExtension, Access_startRecordingTransactions,
      Access_stopRecordingTransactions, Access_transact, Access_setRpcClientDebug,
      Access_removeRpcServerLink }

AccessorOf(op) == CHOOSE a \in Accessors : a.op = op

lockFrame == <<mParceled, extrasFields, rpcVars, recVars, threadPoolMax, aborted,
               lastOp, goceVars, bpVars, gestureVars, laterVars>>

\* Thread t calls accessor a and gets the Extras pointer.  isDefault is
\* whether the value a setter is given is the default one.  Without Extras
\* a "load" accessor, and a "default" one given the default, return at once.
Enter(t, a, isDefault) ==
    /\ inCall[t].pc = "idle"
    /\ IF a.extras = "create" \/ (a.extras = "default" /\ ~isDefault)
       THEN WithExtras
       ELSE mExtras # NULL /\ UNCHANGED <<mExtras, heap>>
    /\ inCall' = [inCall EXCEPT ![t] = [op |-> a.op,
                                        pc |-> IF a.locks THEN "lock" ELSE "access"]]
    /\ UNCHANGED <<mLock, lockFrame>>

\* RpcMutexUniqueLock _l(e->mLock)
Lock(t) ==
    /\ inCall[t].pc = "lock"
    /\ mLock = NULL
    /\ mLock' = t
    /\ inCall' = [inCall EXCEPT ![t].pc = "access"]
    /\ UNCHANGED <<mExtras, heap, lockFrame>>

\* The access is over and the accessor returns; the lock guard, if any,
\* goes out of scope.
Return(t) ==
    /\ inCall[t].pc = "access"
    /\ mLock' = IF mLock = t THEN NULL ELSE mLock
    /\ inCall' = [inCall EXCEPT ![t] = [op |-> "none", pc |-> "idle"]]
    /\ UNCHANGED <<mExtras, heap, lockFrame>>

NextLock ==
    \E t \in Threads :
        \/ \E a \in Accessors, isDefault \in BOOLEAN : Enter(t, a, isDefault)
        \/ Lock(t)
        \/ Return(t)

SpecLock == Init /\ [][NextLock]_vars

(***************************************************************************)
(* servicedispatcher (libs/binder/servicedispatcher.cpp).  The process is  *)
(* seen from outside: what it writes to std::cout and std::cerr and how it *)
(* ends.  LOG at WARNING and above reaches std::cerr                       *)
(* (ServiceDispatcherLogger); CHECK and LOG(FATAL) log and abort.          *)
(***************************************************************************)
\* The ports the kernel may hand to setupInetServer(ip_address, 0, &port).
Ports == {"port1", "port2"}

\* The command lines: an option getopt rejects or not, -g, -i <ip_address>,
\* and the operands left after the options.
Argvs ==
    [debuggable : BOOLEAN, badOption : BOOLEAN, g : BOOLEAN, i : BOOLEAN,
     operands : {<<>>, <<"manager">>, <<"service">>, <<"service", "extra">>}]

\* What the wrapped IServiceManager answers: a status and the value placed
\* in _aidl_return.
ImplResults == [status : {"OK", "EX_SECURITY"}, ret : {"value1", "value2"}]

ServiceManagerOps ==
    {"getService", "checkService", "addService", "listServices",
     "registerForNotifications", "unregisterForNotifications", "isDeclared",
     "getDeclaredInstances", "updatableViaApex", "getUpdatableNames",
     "getConnectionInfo", "registerClientCallback", "tryUnregisterService",
     "getServiceDebugInfo"}

\* What a method returns without asking mImpl, and after asking it.
Rejected == [status |-> "INVALID_OPERATION", ret |-> "none", forwarded |-> FALSE]

Forwarded(implResult) ==
    [status |-> implResult.status, ret |-> implResult.ret, forwarded |-> TRUE]

\* ServiceManagerProxyToNative forwarding checkService to mImpl.
ServiceManagerProxyToNative_ForwardsCheckService(op, implResult) ==
    IF op \in {"getService", "addService", "registerForNotifications",
               "unregisterForNotifications", "registerClientCallback",
               "tryUnregisterService"}
    THEN Rejected
    ELSE Forwarded(implResult)

\* The methods of ServiceManagerProxyToNative; implResult is what mImpl
\* answers when asked.
ServiceManagerProxyToNative(op, implResult) ==
    CASE op = "getService" -> Rejected
      [] op = "checkService" -> Rejected
      [] op = "addService" -> Rejected
      [] op = "listServices" -> Forwarded(implResult)
      [] op = "registerForNotifications" -> Rejected
      [] op = "unregisterForNotifications" -> Rejected
      [] op = "isDeclared" -> Forwarded(implResult)
      [] op = "getDeclaredInstances" -> Forwarded(implResult)
      [] op = "updatableViaApex" -> Forwarded(implResult)
      [] op = "getUpdatableNames" -> Forwarded(implResult)
      [] op = "getConnectionInfo" -> Forwarded(implResult)
      [] op = "registerClientCallback" -> Rejected
      [] op = "tryUnregisterService" -> Rejected
      [] op = "getServiceDebugInfo" -> Forwarded(implResult)

\* The process ends with the given status after logging message at ERROR or
\* FATAL.
Fails(message, status) ==
    /\ sdStderr' = Append(sdStderr, message)
    /\ sdExit' = status
    /\ sdPc' = "exited"

\* How a process ends that dereferences a null pointer: the behaviour is
\* undefined; the builds kill it with a signal, with no diagnostic of its own.
NullDereference == {"SIGSEGV", "SIGABRT"}

dispatcherFrame == <<earlierVars, kindVars, layerVars, frameRateVars, timelineVars,
    linkRaceVars, recRaceVars, moreVars>>

\* exec of servicedispatcher with some command line on some build.
Exec ==
    \E argv \in Argvs :
        /\ sdPc = "notStarted"
        /\ sdArgv' = argv
        /\ sdPc' = "main"
        /\ UNCHANGED <<sdStdout, sdStderr, sdExit, sdAdbCallback, sdPort, sdImplCalls,
                       sdCall, dispatcherFrame>>

\* main: the ro.debuggable check and the warning.
MainDebuggable ==
    /\ sdPc = "main"
    /\ IF ~sdArgv.debuggable
       THEN Fails("only allowed on debuggable builds", "EX_NOPERM")
       ELSE /\ sdStderr' = Append(sdStderr, "WARNING: debug only")
            /\ sdPc' = "getopt"
            /\ UNCHANGED sdExit
    /\ UNCHANGED <<sdArgv, sdStdout, sdAdbCallback, sdPort, sdImplCalls, sdCall,
                   dispatcherFrame>>

\* Usage: the usage text at ERROR, and EX_USAGE.
Usage == Fails("Usage", "EX_USAGE")

\* main: the getopt loop.
MainGetopt ==
    /\ sdPc = "getopt"
    /\ IF sdArgv.badOption
       THEN Usage
       ELSE /\ sdPc' = "adb"
            /\ UNCHANGED <<sdStderr, sdExit>>
    /\ UNCHANGED <<sdArgv, sdStdout, sdAdbCallback, sdPort, sdImplCalls, sdCall,
                   dispatcherFrame>>

\* exitOnAdbDebuggingDisabled: waitForService<IAdbManager> and
\* registerCallback, each under a CHECK.
exitOnAdbDebuggingDisabled ==
    \E adb \in BOOLEAN, registered \in BOOLEAN :
        /\ sdPc = "adb"
        /\ IF ~adb
           THEN /\ Fails("Unable to retrieve service adb", "SIGABRT")
                /\ UNCHANGED sdAdbCallback
           ELSE IF ~registered
           THEN /\ Fails("Unable to call IAdbManager::registerCallback", "SIGABRT")
                /\ UNCHANGED sdAdbCallback
           ELSE /\ sdAdbCallback' = TRUE
                /\ sdPc' = "operands"
                /\ UNCHANGED <<sdStderr, sdExit>>
        /\ UNCHANGED <<sdArgv, sdStdout, sdPort, sdImplCalls, sdCall, dispatcherFrame>>

\* main: the operand count and the choice between the two modes.
MainOperands ==
    /\ sdPc = "operands"
    /\ IF Len(sdArgv.operands) # 1
       THEN Usage
       ELSE /\ sdPc' = IF sdArgv.operands[1] = "manager"
                       THEN "wrapServiceManager" ELSE "Dispatch"
            /\ UNCHANGED <<sdStderr, sdExit>>
    /\ UNCHANGED <<sdArgv, sdStdout, sdAdbCallback, sdPort, sdImplCalls, sdCall,
                   dispatcherFrame>>

\* Dispatch up to pause(); the arguments are what its collaborators answer.
Dispatch ==
    \E sm \in BOOLEAN, binder \in BOOLEAN, rpcServer \in BOOLEAN,
       setupInetServer \in {"OK", "UNKNOWN_ERROR"}, port \in Ports,
       setRpcClientDebug \in {"OK", "INVALID_OPERATION", "PERMISSION_DENIED"} :
        /\ sdPc = "Dispatch"
        /\ IF ~sm THEN
               /\ Fails("No servicemanager", "EX_SOFTWARE")
               /\ UNCHANGED <<sdStdout, sdPort>>
           ELSE IF ~binder THEN
               /\ Fails("No service", "EX_SOFTWARE")
               /\ UNCHANGED <<sdStdout, sdPort>>
           ELSE IF ~rpcServer THEN
               /\ Fails("Cannot create RpcServer", "EX_SOFTWARE")
               /\ UNCHANGED <<sdStdout, sdPort>>
           ELSE IF setupInetServer # "OK" THEN
               /\ Fails("setupInetServer failed", "EX_SOFTWARE")
               /\ UNCHANGED <<sdStdout, sdPort>>
           ELSE IF setRpcClientDebug # "OK" THEN
               /\ Fails("setRpcClientDebug failed", "EX_SOFTWARE")
               /\ sdPort' = port
               /\ UNCHANGED sdStdout
           ELSE
               /\ sdPort' = port
               /\ sdStdout' = sdStdout \o <<port, "\n">>
               /\ sdPc' = "pause"
               /\ UNCHANGED <<sdStderr, sdExit>>
        /\ UNCHANGED <<sdArgv, sdAdbCallback, sdImplCalls, sdCall, dispatcherFrame>>

\* wrapServiceManager up to rpcServer->join().  The result of RpcServer::make
\* is used unchecked.
wrapServiceManager ==
    \E sm \in BOOLEAN, service \in BOOLEAN, interface \in BOOLEAN, rpcServer \in BOOLEAN,
       setupInetServer \in {"OK", "UNKNOWN_ERROR"}, port \in Ports,
       undefined \in NullDereference :
        /\ sdPc = "wrapServiceManager"
        /\ IF ~sm THEN
               /\ Fails("No servicemanager", "EX_SOFTWARE")
               /\ UNCHANGED <<sdStdout, sdPort>>
           ELSE IF ~service THEN
               /\ Fails("No service called manager", "EX_SOFTWARE")
               /\ UNCHANGED <<sdStdout, sdPort>>
           ELSE IF ~interface THEN
               /\ Fails("Cannot cast service called manager to IServiceManager",
                        "EX_SOFTWARE")
               /\ UNCHANGED <<sdStdout, sdPort>>
           ELSE IF ~rpcServer THEN
               /\ sdExit' = undefined
               /\ sdPc' = "exited"
               /\ UNCHANGED <<sdStdout, sdStderr, sdPort>>
           ELSE IF setupInetServer # "OK" THEN
               /\ Fails("Unable to set up inet server", "EX_SOFTWARE")
               /\ UNCHANGED <<sdStdout, sdPort>>
           ELSE
               /\ sdPort' = port
               /\ sdStdout' = sdStdout \o <<port, "\n">>
               /\ sdPc' = "join"
               /\ UNCHANGED <<sdStderr, sdExit>>
        /\ UNCHANGED <<sdArgv, sdAdbCallback, sdImplCalls, sdCall, dispatcherFrame>>

\* AdbCallback::onDebuggingChanged, delivered on the binder thread at any
\* time after the callback is registered.
onDebuggingChanged ==
    \E enabled \in BOOLEAN :
        /\ sdAdbCallback
        /\ sdPc # "exited"
        /\ IF ~enabled
           THEN Fails("ADB debugging disabled, exiting.", "EX_SOFTWARE")
           ELSE UNCHANGED <<sdStderr, sdExit, sdPc>>
        /\ UNCHANGED <<sdArgv, sdStdout, sdAdbCallback, sdPort, sdImplCalls, sdCall,
                       dispatcherFrame>>

\* An RPC client calls a method of the root object while the server is
\* joined.
ProxyCall ==
    \E op \in ServiceManagerOps, implResult \in ImplResults :
        /\ sdPc = "join"
        /\ Len(sdImplCalls) < MaxImplCalls
        /\ LET r == ServiceManagerProxyToNative(op, implResult)
           IN /\ sdCall' = [op |-> op, implStatus |-> implResult.status,
                            implRet |-> implResult.ret, status |-> r.status,
                            ret |-> r.ret, forwarded |-> r.forwarded]
              /\ sdImplCalls' = IF r.forwarded THEN Append(sdImplCalls, op)
                                ELSE sdImplCalls
        /\ UNCHANGED <<sdPc, sdArgv, sdStdout, sdStderr, sdExit, sdAdbCallback, sdPort,
                       dispatcherFrame>>

NextDispatcher ==
    \/ Exec
    \/ MainDebuggable
    \/ MainGetopt
    \/ exitOnAdbDebuggingDisabled
    \/ MainOperands
    \/ Dispatch
    \/ wrapServiceManager
    \/ onDebuggingChanged
    \/ ProxyCall

SpecDispatcher == Init /\ [][NextDispatcher]_vars

(***************************************************************************)
(* IBinder::localBinder and IBinder::remoteBinder, virtual: the base        *)
(* returns nullptr from both, BBinder overrides the first and BpBinder     *)
(* (BpBinder.cpp, not part of the sources) the second, each returning      *)
(* this.                                                                   *)
(***************************************************************************)
\* localBinder without the override of BBinder.
localBinder_NotOverridden(class, this) == NULL

localBinder(class, this) == IF class = "BBinder" THEN this ELSE NULL

remoteBinder(class, this) == IF class = "BpBinder" THEN this ELSE NULL

kindFrame == <<earlierVars, dispatcherVars, layerVars, frameRateVars, timelineVars,
    linkRaceVars, recRaceVars, moreVars>>

\* sp<BBinder>::make() or the creation of a proxy.
ConstructBinder ==
    \E b \in IBinders, class \in {"BBinder", "BpBinder"} :
        /\ kind[b] = "none"
        /\ kind' = [kind EXCEPT ![b] = class]
        /\ UNCHANGED <<seen, kindFrame>>

\* A holder of the object asks both questions, as IBinder::setRpcClientDebug,
\* IBinder::withLock and IBinder::lookupOrCreateWeak do.
QueryBinder ==
    \E b \in IBinders :
        /\ kind[b] \in {"BBinder", "BpBinder"}
        /\ seen' = [seen EXCEPT ![b] = [asked |-> TRUE,
                                        local |-> localBinder(kind[b], b),
                                        remote |-> remoteBinder(kind[b], b)]]
        /\ UNCHANGED <<kind, kindFrame>>

\* The last reference goes.
DestroyBinder ==
    \E b \in IBinders :
        /\ kind[b] \in {"BBinder", "BpBinder"}
        /\ kind' = [kind EXCEPT ![b] = "destroyed"]
        /\ UNCHANGED <<seen, kindFrame>>

NextKinds ==
    \/ ConstructBinder
    \/ QueryBinder
    \/ DestroyBinder

SpecKinds == Init /\ [][NextKinds]_vars

(***************************************************************************)
(* SpecLayers: the LayerLifecycleManager of surfaceflinger's front end     *)
(* (services/surfaceflinger/FrontEnd, not part of the sources), as its     *)
(* unit tests drive it: layers are added, reparented by transactions,      *)
(* lose their handles, and the changes are committed to the listeners.     *)
(***************************************************************************)
layerFrame == <<earlierVars, dispatcherVars, kindVars, frameRateVars, timelineVars,
    linkRaceVars, recRaceVars, moreVars>>

LiveLayers == {l \in LayerIds : mIdToLayer[l].state = "live"}

RECURSIVE Ancestors(_, _)
Ancestors(ls, l) ==
    IF ls[l].parentId = UNASSIGNED_LAYER_ID THEN {}
    ELSE {ls[l].parentId} \cup Ancestors(ls, ls[l].parentId)

\* RequestedLayerState::canBeDestroyed
canBeDestroyed(layer) == ~layer.handleAlive /\ layer.parentId = UNASSIGNED_LAYER_ID

\* The worklist that takes the children of a destroyed layer whatever
\* their handles.
RECURSIVE layersToBeDestroyed_AllChildren(_, _)
layersToBeDestroyed_AllChildren(ls, destroyed) ==
    LET more == {c \in LayerIds \ destroyed :
                    /\ ls[c].state = "live"
                    /\ ls[c].parentId \in destroyed}
    IN  IF more = {} THEN destroyed
        ELSE layersToBeDestroyed_AllChildren(ls, destroyed \cup more)

\* The worklist of onHandlesDestroyed: a child of a destroyed layer loses
\* its parent, and joins the list when it can be destroyed then.
RECURSIVE layersToBeDestroyed(_, _)
layersToBeDestroyed(ls, destroyed) ==
    LET more == {c \in LayerIds \ destroyed :
                    /\ ls[c].state = "live"
                    /\ ls[c].parentId \in destroyed
                    /\ canBeDestroyed([ls[c] EXCEPT !.parentId = UNASSIGNED_LAYER_ID])}
    IN  IF more = {} THEN destroyed
        ELSE layersToBeDestroyed(ls, destroyed \cup more)

\* addLayers: a new layer, with a live handle, under a parent or as a root.
addLayers ==
    \E l \in LayerIds, parent \in {UNASSIGNED_LAYER_ID} \cup LiveLayers :
        /\ mIdToLayer[l].state = "none"
        /\ mIdToLayer' = [mIdToLayer EXCEPT ![l] = [state |-> "live",
                                                     handleAlive |-> TRUE,
                                                     parentId |-> parent]]
        /\ UNCHANGED <<mDestroyedLayers, destroyedReports, layerFrame>>

\* applyTransactions with a reparent, which takes the handle of the layer;
\* the transactions that would close a loop are left out.
reparentLayerTransaction ==
    \E l \in LiveLayers, parent \in {UNASSIGNED_LAYER_ID} \cup LiveLayers :
        /\ mIdToLayer[l].handleAlive
        /\ parent # l
        /\ IF parent = UNASSIGNED_LAYER_ID THEN TRUE
           ELSE l \notin Ancestors(mIdToLayer, parent)
        /\ parent # mIdToLayer[l].parentId
        /\ mIdToLayer' = [mIdToLayer EXCEPT ![l].parentId = parent]
        /\ UNCHANGED <<mDestroyedLayers, destroyedReports, layerFrame>>

\* onHandlesDestroyed: the handles are marked gone, the layers that can be
\* destroyed are destroyed with the children that can be destroyed then,
\* and the children that stay lose their parent.
onHandlesDestroyed ==
    \E destroyedHandles \in SUBSET LiveLayers :
        /\ destroyedHandles # {}
        /\ \A l \in destroyedHandles : mIdToLayer[l].handleAlive
        /\ LET marked == [l \in LayerIds |->
                            IF l \in destroyedHandles
                            THEN [mIdToLayer[l] EXCEPT !.handleAlive = FALSE]
                            ELSE mIdToLayer[l]]
               first == {l \in destroyedHandles : canBeDestroyed(marked[l])}
               destroyed == layersToBeDestroyed(marked, first)
           IN  /\ mIdToLayer' = [l \in LayerIds |->
                    IF l \in destroyed
                    THEN [marked[l] EXCEPT !.state = "destroyed",
                                           !.parentId = UNASSIGNED_LAYER_ID]
                    ELSE IF marked[l].parentId \in destroyed
                    THEN [marked[l] EXCEPT !.parentId = UNASSIGNED_LAYER_ID]
                    ELSE marked[l]]
               /\ mDestroyedLayers' = mDestroyedLayers \cup destroyed
        /\ UNCHANGED <<destroyedReports, layerFrame>>

\* commitChanges: every layer destroyed since the last commit is handed to
\* the listeners' onLayerDestroyed, and the list is cleared.
commitChanges ==
    /\ mDestroyedLayers # {}
    /\ destroyedReports' = [l \in LayerIds |->
            IF l \in mDestroyedLayers THEN destroyedReports[l] + 1
            ELSE destroyedReports[l]]
    /\ mDestroyedLayers' = {}
    /\ UNCHANGED <<mIdToLayer, layerFrame>>

NextLayers ==
    \/ addLayers
    \/ reparentLayerTransaction
    \/ onHandlesDestroyed
    \/ commitChanges

SpecLayers == Init /\ [][NextLayers]_vars

(***************************************************************************)
(* SpecFrameRate: Layer::setFrameRate and the vote each layer reports for  *)
(* its tree (services/surfaceflinger/Layer.cpp, not part of the sources),  *)
(* as SetFrameRateTest drives them: votes are set and cleared, children    *)
(* added and removed, and the current state committed.                     *)
(***************************************************************************)
frameRateFrame == <<earlierVars, dispatcherVars, kindVars, layerVars, timelineVars,
    linkRaceVars, recRaceVars, moreVars>>

Votes == {FRAME_RATE_VOTE1, FRAME_RATE_VOTE2, FRAME_RATE_VOTE3, FRAME_RATE_NO_VOTE}

\* FrameRate::isValid
isValid(vote) == vote.type = "NoVote" \/ vote.rate > 0

\* A tree vote that counts the ExactOrMultiple votes too.
votedForTree_AnyRate(vote) == vote.type = "NoVote" \/ vote.rate > 0

\* Whether a layer's vote makes the layers above it vote for the tree: the
\* ExactOrMultiple votes are left out.
votedForTree(vote) ==
    \/ vote.rate > 0 /\ vote.type \in {"Default", "Exact"}
    \/ vote.type = "NoVote"

RECURSIVE getRoot(_, _)
getRoot(parents, l) ==
    IF parents[l] = NoParent THEN l ELSE getRoot(parents, parents[l])

\* The frame rate Layer::propagateFrameRateForLayerTree hands to the
\* children of a layer: the layer's own when valid, else its parent's.
RECURSIVE propagatedFrameRate(_, _, _)
propagatedFrameRate(parents, own, l) ==
    IF isValid(own[l]) THEN own[l]
    ELSE IF parents[l] = NoParent THEN FRAME_RATE_NO_VOTE
    ELSE propagatedFrameRate(parents, own, parents[l])

\* What Layer::propagateFrameRateForLayerTree returns.
RECURSIVE treeHasFrameRateVote(_, _, _)
treeHasFrameRateVote(parents, own, l) ==
    \/ votedForTree(propagatedFrameRate(parents, own, l))
    \/ \E c \in TreeLayers : parents[c] = l /\ treeHasFrameRateVote(parents, own, c)

\* What Layer::propagateFrameRateForLayerTree sets on a layer.
propagateFrameRateForLayerTree(parents, own, l) ==
    LET rate == propagatedFrameRate(parents, own, l)
        childrenHaveFrameRate ==
            \E c \in TreeLayers : parents[c] = l /\ treeHasFrameRateVote(parents, own, c)
    IN  IF ~isValid(rate) /\ childrenHaveFrameRate THEN FRAME_RATE_TREE ELSE rate

\* Layer::updateTreeHasFrameRateVote on each of the given layers: the tree
\* of each one is walked from its root.
updateTreeHasFrameRateVote(parents, own, layers) ==
    [l \in TreeLayers |->
        IF \E u \in layers : getRoot(parents, l) = getRoot(parents, u)
        THEN propagateFrameRateForLayerTree(parents, own, l)
        ELSE frameRateForLayerTree[l]]

setFrameRate ==
    \E l \in TreeLayers, vote \in Votes :
        /\ frameRate[l] # vote
        /\ frameRate' = [frameRate EXCEPT ![l] = vote]
        /\ frameRateForLayerTree' = updateTreeHasFrameRateVote(mParent, frameRate', {l})
        /\ UNCHANGED <<mParent, drawingFrameRateForLayerTree, frameRateFrame>>

\* Layer::addChild of a layer that has no parent.
addChild ==
    \E l, child \in TreeLayers :
        /\ mParent[child] = NoParent
        /\ getRoot(mParent, l) # child
        /\ mParent' = [mParent EXCEPT ![child] = l]
        /\ frameRateForLayerTree' = updateTreeHasFrameRateVote(mParent', frameRate, {l})
        /\ UNCHANGED <<frameRate, drawingFrameRateForLayerTree, frameRateFrame>>

\* Layer::removeChild: the tree of the parent and the tree of the child are
\* both walked again.
removeChild ==
    \E l, child \in TreeLayers :
        /\ mParent[child] = l
        /\ mParent' = [mParent EXCEPT ![child] = NoParent]
        /\ frameRateForLayerTree' =
                updateTreeHasFrameRateVote(mParent', frameRate, {l, child})
        /\ UNCHANGED <<frameRate, drawingFrameRateForLayerTree, frameRateFrame>>

\* SetFrameRateTest::commitTransaction: every layer commits.
commitTransaction ==
    /\ drawingFrameRateForLayerTree # frameRateForLayerTree
    /\ drawingFrameRateForLayerTree' = frameRateForLayerTree
    /\ UNCHANGED <<mParent, frameRate, frameRateForLayerTree, frameRateFrame>>

NextFrameRate ==
    \/ setFrameRate
    \/ addChild
    \/ removeChild
    \/ commitTransaction

SpecFrameRate == Init /\ [][NextFrameRate]_vars

(***************************************************************************)
(* SpecTimeline: the deque of display frames of FrameTimeline              *)
(* (services/surfaceflinger/FrameTimeline/FrameTimeline.cpp, not part of   *)
(* the sources), as FrameTimelineTest drives it: a display frame is begun  *)
(* at wake-up, takes surface frames, and is retained when presented.       *)
(***************************************************************************)
timelineFrame == <<earlierVars, dispatcherVars, kindVars, layerVars, frameRateVars,
    linkRaceVars, recRaceVars, moreVars>>

RECURSIVE popFront(_, _)
popFront(frames, max) ==
    IF Len(frames) >= max /\ frames # <<>> THEN popFront(Tail(frames), max) ELSE frames

\* FrameTimeline::finalizeCurrentDisplayFrame: the front of the deque is
\* popped while the deque is full, then the frame is pushed at the back.
finalizeCurrentDisplayFrame(frames, max, frame) == Append(popFront(frames, max), frame)

\* setMaxDisplayFrames without the clear.
setMaxDisplayFrames_KeepsFrames(frames, size) == frames

\* FrameTimeline::setMaxDisplayFrames: the size may grow or shrink, and the
\* deque is cleared either way.
setMaxDisplayFrames(frames, size) == <<>>

setSfWakeUp ==
    /\ ~mCurrentDisplayFrame.wakeUp
    /\ presented < MaxPresented
    /\ mCurrentDisplayFrame' = [mCurrentDisplayFrame EXCEPT !.wakeUp = TRUE]
    /\ UNCHANGED <<mDisplayFrames, mMaxDisplayFrames, presented, timelineFrame>>

addSurfaceFrame ==
    /\ mCurrentDisplayFrame.surfaceFrames < MaxSurfaceFrames
    /\ mCurrentDisplayFrame' =
            [mCurrentDisplayFrame EXCEPT !.surfaceFrames = @ + 1]
    /\ UNCHANGED <<mDisplayFrames, mMaxDisplayFrames, presented, timelineFrame>>

setSfPresent ==
    /\ mCurrentDisplayFrame.wakeUp
    /\ presented' = presented + 1
    /\ mDisplayFrames' = finalizeCurrentDisplayFrame(mDisplayFrames, mMaxDisplayFrames,
                              [id |-> presented',
                               surfaceFrames |-> mCurrentDisplayFrame.surfaceFrames])
    /\ mCurrentDisplayFrame' = NewDisplayFrame
    /\ UNCHANGED <<mMaxDisplayFrames, timelineFrame>>

SetMaxDisplayFrames ==
    \E size \in 1..MaxSize :
        /\ mDisplayFrames' = setMaxDisplayFrames(mDisplayFrames, size)
        /\ mMaxDisplayFrames' = size
        /\ UNCHANGED <<mCurrentDisplayFrame, presented, timelineFrame>>

NextTimeline ==
    \/ setSfWakeUp
    \/ addSurfaceFrame
    \/ setSfPresent
    \/ SetMaxDisplayFrames

SpecTimeline == Init /\ [][NextTimeline]_vars

(***************************************************************************)
(* SpecLinkRace: one call of BBinder::setRpcClientDebug on a thread of the *)
(* pool while the keep-alive dies and BpBinder::sendObituary calls         *)
(* RpcServerLink::binderDied on another, one access to shared state per    *)
(* step.  Extras::mLock is held by the setup from line 693 to its return.  *)
(***************************************************************************)
linkRaceFrame == <<earlierVars, dispatcherVars, kindVars, layerVars, frameRateVars,
                   timelineVars, recRaceVars, moreVars>>

\* RpcServer::shutdown as binderDied sees it: it stops a started server,
\* and fails on one that is not started ("Not started?").
RpcServer_shutdownRace(b) ==
    IF b.started THEN [ok |-> TRUE, bridge |-> [b EXCEPT !.started = FALSE]]
    ELSE [ok |-> FALSE, bridge |-> b]

\* Lines 692-693: getOrCreateExtras and the lock.
SetupLock ==
    /\ setupCall.pc = "idle"
    /\ bridge.mLock = "free"
    /\ bridge' = [bridge EXCEPT !.mLock = "setup"]
    /\ setupCall' = [setupCall EXCEPT !.pc = "locked"]
    /\ UNCHANGED <<deathCall, linkRaceFrame>>

\* Lines 694-701: the server and the link are made and the link is
\* registered on the keep-alive, which fails once the keep-alive is dead.
SetupLinkToDeath ==
    /\ setupCall.pc = "locked"
    /\ \E made \in BOOLEAN :
        IF ~made
        THEN /\ setupCall' = [pc |-> "fatal", status |-> "none"]
             /\ UNCHANGED bridge
        ELSE IF bridge.alive
        THEN /\ bridge' = [bridge EXCEPT !.registered = TRUE, !.mRpcServer = TRUE]
             /\ setupCall' = [setupCall EXCEPT !.pc = "linked"]
        ELSE /\ bridge' = [bridge EXCEPT !.mLock = "free"]
             /\ setupCall' = [pc |-> "returned", status |-> "DEAD_OBJECT"]
    /\ UNCHANGED <<deathCall, linkRaceFrame>>

\* Lines 702-705: setRootObjectWeak and setupExternalServer.
SetupExternalServer ==
    /\ setupCall.pc = "linked"
    /\ \E status \in SetupStatuses :
        IF status # "OK"
        THEN /\ bridge' = [bridge EXCEPT !.mLock = "free"]
             /\ setupCall' = [pc |-> "returned", status |-> status]
        ELSE /\ bridge' = [bridge EXCEPT !.setUp = TRUE]
             /\ setupCall' = [setupCall EXCEPT !.pc = "setUp"]
    /\ UNCHANGED <<deathCall, linkRaceFrame>>

\* Lines 706-708: setMaxThreads and start.
SetupStart ==
    /\ setupCall.pc = "setUp"
    /\ bridge' = [bridge EXCEPT !.started = TRUE]
    /\ setupCall' = [setupCall EXCEPT !.pc = "started"]
    /\ UNCHANGED <<deathCall, linkRaceFrame>>

\* Line 709: the link is recorded.
SetupEmplace ==
    /\ setupCall.pc = "started"
    /\ bridge' = [bridge EXCEPT !.inSet = TRUE]
    /\ setupCall' = [setupCall EXCEPT !.pc = "emplaced"]
    /\ UNCHANGED <<deathCall, linkRaceFrame>>

\* Lines 710-712: the return, which releases the lock.
SetupReturn ==
    /\ setupCall.pc = "emplaced"
    /\ bridge' = [bridge EXCEPT !.mLock = "free"]
    /\ setupCall' = [pc |-> "returned", status |-> "OK"]
    /\ UNCHANGED <<deathCall, linkRaceFrame>>

\* The peer of the keep-alive dies: a registered link gets its binderDied.
KeepAliveDies ==
    /\ bridge.alive
    /\ setupCall.pc # "fatal"
    /\ bridge' = [bridge EXCEPT !.alive = FALSE, !.registered = FALSE]
    /\ deathCall' = IF bridge.registered THEN [deathCall EXCEPT !.pc = "binderDied"]
                    ELSE deathCall
    /\ UNCHANGED <<setupCall, linkRaceFrame>>

\* binderDied, lines 235-237: the owner is promoted, which succeeds while
\* a thread is inside one of its methods or has just left it.
DiedPromote ==
    /\ deathCall.pc = "binderDied"
    /\ setupCall.pc # "fatal"
    /\ deathCall' = [deathCall EXCEPT !.pc = "promoted"]
    /\ UNCHANGED <<setupCall, bridge, linkRaceFrame>>

\* binderDied, lines 239-245: the server is shut down and the reference to
\* it dropped.
DiedShutdown ==
    /\ deathCall.pc = "promoted"
    /\ setupCall.pc # "fatal"
    /\ LET r == RpcServer_shutdownRace(bridge)
       IN  /\ bridge' = [r.bridge EXCEPT !.mRpcServer = FALSE]
           /\ deathCall' = [pc |-> "remove",
                            shutdown |-> IF r.ok THEN "done" ELSE "failed"]
    /\ UNCHANGED <<setupCall, linkRaceFrame>>

\* binderDied, lines 247-250, and removeRpcServerLink, 714-719: the erase
\* under the lock of the Extras.
DiedRemoveRpcServerLink ==
    /\ deathCall.pc = "remove"
    /\ setupCall.pc # "fatal"
    /\ bridge.mLock = "free"
    /\ bridge' = [bridge EXCEPT !.inSet = FALSE]
    /\ deathCall' = [deathCall EXCEPT !.pc = "done"]
    /\ UNCHANGED <<setupCall, linkRaceFrame>>

NextLinkRace ==
    \/ SetupLock
    \/ SetupLinkToDeath
    \/ SetupExternalServer
    \/ SetupStart
    \/ SetupEmplace
    \/ SetupReturn
    \/ KeepAliveDies
    \/ DiedPromote
    \/ DiedShutdown
    \/ DiedRemoveRpcServerLink

SpecLinkRace == Init /\ [][NextLinkRace]_vars

(***************************************************************************)
(* SpecRecRace: NRecThreads threads of the pool inside BBinder::transact   *)
(* of one object, with START_RECORDING_TRANSACTION,                        *)
(* STOP_RECORDING_TRANSACTION and other codes, one access to shared state  *)
(* per step.  The body of a critical section is one step: mRecordingFd is  *)
(* read and written under Extras::mLock only.  mRecordingOn is a plain     *)
(* bool that transact reads without the lock: that read returns either     *)
(* value once the flag was written during the call, and the load of        *)
(* mExtras that follows it may return the null the call started with.      *)
(***************************************************************************)
recRaceFrame == <<earlierVars, dispatcherVars, kindVars, layerVars, frameRateVars,
                  timelineVars, linkRaceVars, moreVars>>

RecCodes == {"START_RECORDING_TRANSACTION", "STOP_RECORDING_TRANSACTION",
             "PING_TRANSACTION"}

\* A write of mRecordingOn: every thread inside a call may from now on read
\* the old value or the new one.
writeRecordingOn(threads, t) ==
    [u \in RecThreads |->
        IF u # t /\ threads[u].pc # "idle" THEN [threads[u] EXCEPT !.raced = TRUE]
        ELSE threads[u]]

\* The check under the lock left out.
recordingOnUnderLock_NoRecheck(on) == TRUE

\* Line 408: the flag is read again under the lock.
recordingOnUnderLock(on) == on

\* transact is entered (359-361).
RecBegin(t) ==
    \E code \in RecCodes :
        /\ recThread[t].pc = "idle"
        /\ ~recShared.fatal
        /\ code = "START_RECORDING_TRANSACTION" => recShared.opened < MaxRecordingFds
        /\ recThread' = [recThread EXCEPT ![t] =
                [pc |-> "dispatch", code |-> code, raced |-> FALSE,
                 sawNull |-> ~recShared.mExtras]]
        /\ UNCHANGED <<recShared, recRaceFrame>>

\* The switch (367-391): start and stop, called by root, go to
\* getOrCreateExtras (308, 338); the other codes are dispatched.
RecDispatch(t) ==
    /\ recThread[t].pc = "dispatch"
    /\ ~recShared.fatal
    /\ IF recThread[t].code = "PING_TRANSACTION"
       THEN /\ recThread' = [recThread EXCEPT ![t].pc = "check"]
            /\ UNCHANGED recShared
       ELSE \E root \in BOOLEAN :
            IF ~root
            THEN /\ recThread' = [recThread EXCEPT ![t].pc = "check"]
                 /\ UNCHANGED recShared
            ELSE /\ recThread' = [recThread EXCEPT ![t].pc = "lock"]
                 /\ recShared' = [recShared EXCEPT !.mExtras = TRUE]
    /\ UNCHANGED recRaceFrame

\* Extras::mLock is taken (309, 339, 407).
RecLock(t) ==
    /\ recThread[t].pc \in {"lock", "recordLock"}
    /\ ~recShared.fatal
    /\ recShared.mLock = NoThread
    /\ recShared' = [recShared EXCEPT !.mLock = t]
    /\ recThread' = [recThread EXCEPT ![t].pc =
            IF recThread[t].pc = "recordLock" THEN "record"
            ELSE IF recThread[t].code = "START_RECORDING_TRANSACTION" THEN "start"
            ELSE "stop"]
    /\ UNCHANGED recRaceFrame

\* startRecordingTransactions under the lock (310-320).
RecStart(t) ==
    /\ recThread[t].pc = "start"
    /\ ~recShared.fatal
    /\ \E fdStatus \in {"OK", "BAD_TYPE"} :
        IF recShared.mRecordingOn \/ fdStatus # "OK"
        THEN /\ recShared' = [recShared EXCEPT !.mLock = NoThread]
             /\ recThread' = [recThread EXCEPT ![t].pc = "check"]
        ELSE /\ recShared' = [recShared EXCEPT !.mLock = NoThread,
                                               !.mRecordingFd = recShared.opened + 1,
                                               !.opened = @ + 1,
                                               !.mRecordingOn = TRUE]
             /\ recThread' = [writeRecordingOn(recThread, t) EXCEPT ![t].pc = "check"]
    /\ UNCHANGED recRaceFrame

\* stopRecordingTransactions under the lock (340-347).
RecStop(t) ==
    /\ recThread[t].pc = "stop"
    /\ ~recShared.fatal
    /\ IF recShared.mRecordingOn
       THEN /\ recShared' = [recShared EXCEPT !.mLock = NoThread,
                                              !.resetFds = @ \cup {recShared.mRecordingFd},
                                              !.mRecordingFd = ResetFd,
                                              !.mRecordingOn = FALSE]
            /\ recThread' = [writeRecordingOn(recThread, t) EXCEPT ![t].pc = "check"]
       ELSE /\ recShared' = [recShared EXCEPT !.mLock = NoThread]
            /\ recThread' = [recThread EXCEPT ![t].pc = "check"]
    /\ UNCHANGED recRaceFrame

\* Line 405: the read of mRecordingOn without the lock.
RecCheck(t) ==
    /\ recThread[t].pc = "check"
    /\ ~recShared.fatal
    /\ \E on \in (IF recThread[t].raced THEN BOOLEAN ELSE {recShared.mRecordingOn}) :
        recThread' = [recThread EXCEPT ![t] =
            IF on /\ recThread[t].code # "START_RECORDING_TRANSACTION"
            THEN [@ EXCEPT !.pc = "load"]
            ELSE IdleThread]
    /\ UNCHANGED <<recShared, recRaceFrame>>

\* Line 406: the load of mExtras; a null is dereferenced at 407.
RecLoadExtras(t) ==
    /\ recThread[t].pc = "load"
    /\ ~recShared.fatal
    /\ \E null \in (IF recThread[t].sawNull THEN BOOLEAN ELSE {~recShared.mExtras}) :
        IF null
        THEN /\ recShared' = [recShared EXCEPT !.fatal = TRUE]
             /\ UNCHANGED recThread
        ELSE /\ recThread' = [recThread EXCEPT ![t].pc = "recordLock"]
             /\ UNCHANGED recShared
    /\ UNCHANGED recRaceFrame

\* Lines 408-421 under the lock: the snapshot is written to mRecordingFd
\* when the flag is still on, unless it could not be made or dumped.
RecRecord(t) ==
    /\ recThread[t].pc = "record"
    /\ ~recShared.fatal
    /\ \E written \in BOOLEAN :
        recShared' = [recShared EXCEPT
            !.mLock = NoThread,
            !.lastWrite = IF recordingOnUnderLock(recShared.mRecordingOn) /\ written
                          THEN [thread |-> t, fd |-> recShared.mRecordingFd,
                                locked |-> recShared.mLock = t,
                                on |-> recShared.mRecordingOn]
                          ELSE @]
    /\ recThread' = [recThread EXCEPT ![t] = IdleThread]
    /\ UNCHANGED recRaceFrame

NextRecRace ==
    \E t \in RecThreads :
        \/ RecBegin(t)
        \/ RecDispatch(t)
        \/ RecLock(t)
        \/ RecStart(t)
        \/ RecStop(t)
        \/ RecCheck(t)
        \/ RecLoadExtras(t)
        \/ RecRecord(t)

SpecRecRace == Init /\ [][NextRecRace]_vars

(***************************************************************************)
(* SpecVirtual: transact on an object of a class derived from BBinder      *)
(* whose onTransact notes the code it is called with and then calls        *)
(* BBinder::onTransact.                                                    *)
(***************************************************************************)
virtualFrame == <<threadPoolMax, goceVars, bpVars, lockVars, gestureVars, laterBase,
                  touchpadVars, metricsVars, amVars, gpuVars>>

\* The switch of transact with PING_TRANSACTION left to the default label.
handledBy_PingByDefault(code) ==
    CASE code = "START_RECORDING_TRANSACTION" -> "startRecordingTransactions"
      [] code = "STOP_RECORDING_TRANSACTION" -> "stopRecordingTransactions"
      [] code = "EXTENSION_TRANSACTION" -> "getExtension"
      [] code = "DEBUG_PID_TRANSACTION" -> "getDebugPid"
      [] code = "SET_RPC_CLIENT_TRANSACTION" -> "setRpcClientDebug"
      [] OTHER -> "onTransact"

\* The switch of transact: the function a code is handed to.
handledBy(code) ==
    CASE code = "PING_TRANSACTION" -> "pingBinder"
      [] code = "START_RECORDING_TRANSACTION" -> "startRecordingTransactions"
      [] code = "STOP_RECORDING_TRANSACTION" -> "stopRecordingTransactions"
      [] code = "EXTENSION_TRANSACTION" -> "getExtension"
      [] code = "DEBUG_PID_TRANSACTION" -> "getDebugPid"
      [] code = "SET_RPC_CLIENT_TRANSACTION" -> "setRpcClientDebug"
      [] OTHER -> "onTransact"

\* The parcels sent to the subclass: with SET_RPC_CLIENT_TRANSACTION a well
\* formed one and an empty one.
SubclassParcelsOf(code) ==
    CASE code = "SET_RPC_CLIENT_TRANSACTION" ->
             { RpcParcel(TRUE, <<Item("fd", SocketFd)>>, <<Item("binder", 1)>>), <<>> }
      [] OTHER -> ParcelsOf(code)

TransactOnSubclass ==
    \E code \in Codes, hasReply \in BOOLEAN, uid \in Uids :
        \E data \in SubclassParcelsOf(code),
           sysprops \in (IF code = "SYSPROPS_TRANSACTION" THEN BOOLEAN ELSE {TRUE}) :
            /\ ~aborted
            /\ transact(code, data, hasReply, uid, sysprops)
            /\ aborted' = (lastOp'.status = "FATAL")
            /\ onTransactCalls' = IF handledBy(code) = "onTransact"
                                  THEN <<code>>
                                  ELSE <<>>
            /\ UNCHANGED virtualFrame

NextVirtual ==
    \/ TransactOnSubclass
    \/ SetExtension

SpecVirtual == Init /\ [][NextVirtual]_vars

(***************************************************************************)
(* SpecTouchpad: a TouchpadInputMapper (reader/mapper/                     *)
(* TouchpadInputMapper.cpp) around the GestureConverter, on the one thread *)
(* of the input reader.  The gestures library is the environment: it       *)
(* reports a gesture from its start to its end, starts no gesture inside   *)
(* another, and ends the gesture in progress on a hardware state without   *)
(* fingers.  Its callback runs inside PushHardwareState, which is why      *)
(* reset and sendHardwareState are steps around the callbacks.  The        *)
(* mapper's mDisplayId and the converter's are one variable: reconfigure   *)
(* sets both to the same value and nothing else writes either.             *)
(***************************************************************************)
touchpadFrame == <<binderVars, lastOp, goceVars, bpVars, lockVars, laterBase, virtualVars,
                   metricsVars, amVars, gpuVars>>

\* What the interpreter can report next and the gesture it is in afterwards.
InterpreterGestures(inGesture) ==
    CASE inGesture = "none" ->
           { <<Gesture("kGestureTypeMove", {}, {}, FALSE, "nonzero"), "none">>,
             <<Gesture("kGestureTypeButtonsChange", {GESTURES_BUTTON_LEFT}, {}, FALSE, "none"),
               "none">>,
             <<Gesture("kGestureTypeButtonsChange", {}, {GESTURES_BUTTON_LEFT}, FALSE, "none"),
               "none">>,
             <<Gesture("kGestureTypeScroll", {}, {}, FALSE, "none"), "scroll">>,
             <<Gesture("kGestureTypeSwipe", {}, {}, FALSE, "none"), "swipe">>,
             <<Gesture("kGestureTypePinch", {}, {}, FALSE, "GESTURES_ZOOM_START"), "pinch">> }
      [] inGesture = "scroll" ->
           { <<Gesture("kGestureTypeScroll", {}, {}, FALSE, "none"), "scroll">>,
             <<Gesture("kGestureTypeFling", {}, {}, FALSE, "GESTURES_FLING_START"), "none">> }
      [] inGesture = "swipe" ->
           { <<Gesture("kGestureTypeSwipe", {}, {}, FALSE, "none"), "swipe">>,
             <<Gesture("kGestureTypeSwipeLift", {}, {}, FALSE, "none"), "none">> }
      [] inGesture = "pinch" ->
           { <<Gesture("kGestureTypePinch", {}, {}, FALSE, "GESTURES_ZOOM_UPDATE"), "pinch">>,
             <<Gesture("kGestureTypePinch", {}, {}, FALSE, "GESTURES_ZOOM_END"), "none">> }
      [] OTHER -> {}

\* What it reports on the hardware state without fingers that resets it.
EndingGestures(inGesture) ==
    { p \in InterpreterGestures(inGesture) : inGesture # "none" /\ p[2] = "none" }

\* consumeGesture queueing the gesture whatever the mapper is doing.
consumeGesture_AlwaysQueues(queue, resetting, gesture) ==
    Append(queue, gesture)

consumeGesture(queue, resetting, gesture) ==
    IF resetting THEN queue ELSE Append(queue, gesture)

\* The loop of processGestures over the queue.
RECURSIVE handleGestures(_, _, _)
handleGestures(g, when, queue) ==
    IF queue = <<>> \/ g.fatal THEN Result(g, <<>>)
    ELSE LET r == handleGesture(g, when, Head(queue))
             rest == handleGestures(r.g, when, Tail(queue))
         IN Result(rest.g, r.out \o rest.out)

processGestures(g, when, queue) ==
    IF mDisplayId # NoDisplay THEN handleGestures(g, when, queue) ELSE Result(g, <<>>)

TpAlive == ~gestureFatal /\ ~tpTrap

\* reconfigure: the display is looked up again on DISPLAY_INFO (display is
\* what the lookup gives), and on POINTER_CAPTURE the mapper starts or ends
\* capturing; when it starts, it goes into reset.  No change at all is the
\* first configuration.
TpReconfigure ==
    \E changes \in SUBSET {"DISPLAY_INFO", "POINTER_CAPTURE"},
       display \in {NoDisplay, ADISPLAY_ID_DEFAULT}, enable \in BOOLEAN :
        LET captureChanges == (changes = {} /\ enable) \/ "POINTER_CAPTURE" \in changes
        IN
        /\ TpAlive
        /\ tpPc = "idle"
        /\ mDisplayId' = IF changes = {} \/ "DISPLAY_INFO" \in changes
                         THEN display ELSE mDisplayId
        /\ mPointerCaptured' = IF captureChanges THEN enable ELSE mPointerCaptured
        /\ IF captureChanges /\ enable
           THEN /\ tpPc' = "resetting"
                /\ mResettingInterpreter' = TRUE
                /\ tpDiscarded' = 0
           ELSE UNCHANGED <<tpPc, mResettingInterpreter, tpDiscarded>>
        /\ gestureCall' = [op |-> "reconfigure", when |-> 0, gesture |-> NoGesture]
        /\ gestureOut' = <<>>
        /\ UNCHANGED <<mCurrentClassification, mButtonState, mDownTime, mSwipeFingerCount,
                       preventingTaps, gestureFatal, streamDown, mGesturesToProcess,
                       mGestureInterpreter, tpTrap, touchpadFrame>>

\* reset up to PushHardwareState in resetGestureInterpreter.
TpReset ==
    /\ TpAlive
    /\ tpPc = "idle"
    /\ tpPc' = "resetting"
    /\ mResettingInterpreter' = TRUE
    /\ tpDiscarded' = 0
    /\ gestureCall' = [op |-> "reset", when |-> 0, gesture |-> NoGesture]
    /\ gestureOut' = <<>>
    /\ UNCHANGED <<converterVars, streamDown, mGesturesToProcess, mPointerCaptured,
                   mGestureInterpreter, tpTrap, touchpadFrame>>

\* process and sendHardwareState up to PushHardwareState.
TpSendHardwareState ==
    /\ TpAlive
    /\ tpPc = "idle"
    /\ ~mPointerCaptured
    /\ tpPc' = "pushing"
    /\ gestureCall' = [op |-> "process", when |-> 0, gesture |-> NoGesture]
    /\ gestureOut' = <<>>
    /\ UNCHANGED <<converterVars, streamDown, mResettingInterpreter, mGesturesToProcess,
                   mPointerCaptured, mGestureInterpreter, tpDiscarded, tpTrap,
                   touchpadFrame>>

\* gestureInterpreterCallback and consumeGesture, called by the interpreter
\* from inside PushHardwareState.
TpConsumeGesture ==
    /\ TpAlive
    /\ tpPc \in {"pushing", "resetting"}
    /\ Len(mGesturesToProcess) + tpDiscarded < MaxGesturesPerState
    /\ \E p \in (IF tpPc = "resetting" THEN EndingGestures(mGestureInterpreter)
                 ELSE InterpreterGestures(mGestureInterpreter)) :
        /\ mGesturesToProcess' = consumeGesture(mGesturesToProcess, mResettingInterpreter, p[1])
        /\ tpDiscarded' = IF mGesturesToProcess' = mGesturesToProcess
                          THEN tpDiscarded + 1 ELSE tpDiscarded
        /\ mGestureInterpreter' = p[2]
    /\ UNCHANGED <<gestureVars, mDisplayId, tpPc, mResettingInterpreter, mPointerCaptured,
                   tpTrap, touchpadFrame>>

\* sendHardwareState from the return of PushHardwareState: processGestures.
TpProcessGestures ==
    \E when \in Times :
        /\ TpAlive
        /\ tpPc = "pushing"
        /\ Returns(processGestures(Converter, when, mGesturesToProcess))
        /\ mGesturesToProcess' = <<>>
        /\ tpPc' = "idle"
        /\ tpDiscarded' = 0
        /\ gestureCall' = [op |-> "process", when |-> when, gesture |-> NoGesture]
        /\ UNCHANGED <<mDisplayId, mResettingInterpreter, mPointerCaptured,
                       mGestureInterpreter, tpTrap, touchpadFrame>>

\* reset from the return of PushHardwareState: the flag is cleared and the
\* converter is reset.  With no display, makeMotionArgs dereferences an empty
\* optional for every event the converter builds: the build either traps or
\* reads what the optional's storage holds.
TpResetReturns ==
    \E when \in Times, traps \in BOOLEAN, undefined \in {ADISPLAY_ID_DEFAULT} :
        LET r == reset(Converter)
            dereferencesEmpty == mDisplayId = NoDisplay /\ r.out # <<>>
        IN
        /\ TpAlive
        /\ tpPc = "resetting"
        /\ mResettingInterpreter' = FALSE
        /\ mGestureInterpreter' = "none"
        /\ IF dereferencesEmpty /\ traps
           THEN /\ tpTrap' = TRUE
                /\ gestureOut' = <<>>
                /\ UNCHANGED <<mCurrentClassification, mButtonState, mDownTime,
                               mSwipeFingerCount, preventingTaps, gestureFatal, streamDown>>
           ELSE /\ Returns(IF dereferencesEmpty
                           THEN Result(r.g, [i \in DOMAIN r.out |->
                                                [r.out[i] EXCEPT !.displayId = undefined]])
                           ELSE r)
                /\ UNCHANGED tpTrap
        /\ tpPc' = "idle"
        /\ gestureCall' = [op |-> "reset", when |-> when, gesture |-> NoGesture]
        /\ UNCHANGED <<mDisplayId, mGesturesToProcess, mPointerCaptured, tpDiscarded,
                       touchpadFrame>>

NextTouchpad ==
    \/ TpReconfigure
    \/ TpReset
    \/ TpSendHardwareState
    \/ TpConsumeGesture
    \/ TpProcessGestures
    \/ TpResetReturns

SpecTouchpad == Init /\ [][NextTouchpad]_vars

(***************************************************************************)
(* SpecMetrics: an InputDeviceMetricsCollector (services/inputflinger/     *)
(* InputDeviceMetricsCollector.cpp).  Every call holds mLock from its      *)
(* first statement to its last, so a call is one step.  A handler is a     *)
(* function of the collector c giving the collector after it.  A session   *)
(* keeps the time of the last event of the device, of each source and of   *)
(* the last interaction; the start times, from which the durations         *)
(* reported are computed, and the uids are left out.                      *)
(***************************************************************************)
metricsFrame == <<earlierVars, laterBase, virtualVars, touchpadVars, amVars, gpuVars>>

Collector ==
    [logged |-> mLoggedDeviceInfos, sessions |-> mActiveUsageSessions,
     queue |-> mInteractionsQueue, reports |-> NoReports, fatal |-> FALSE]

isIgnoredInputDeviceId(deviceId) == deviceId = VIRTUAL_KEYBOARD_ID

\* ActiveSession::recordUsage for each of the sources of one event.
recordUsage(session, eventTime, sources) ==
    IF sources = {} THEN session
    ELSE [session EXCEPT !.bySource = [src \in UsageSources |->
                                          IF src \in sources THEN eventTime ELSE @[src]],
                         !.end = eventTime]

recordInteraction(session, timestamp) ==
    IF timestamp >= session.end + UsageSessionTimeout THEN session
    ELSE [session EXCEPT !.byUid = timestamp]

\* checkIfCompletedAt closing a source's session only after the timeout has
\* been exceeded.
checkIfCompletedAt_AfterTimeout(session, timestamp) ==
    LET sessionExpiryTime == timestamp - UsageSessionTimeout
        Kept(end) == IF end # NoTime /\ end < sessionExpiryTime THEN NoTime ELSE end
        bySource == [src \in UsageSources |-> Kept(session.bySource[src])]
    IN [session |-> [session EXCEPT !.bySource = bySource, !.byUid = Kept(@)],
        completed |-> \A src \in UsageSources : bySource[src] = NoTime]

\* The session after the call and what the call returns.
checkIfCompletedAt(session, timestamp) ==
    LET sessionExpiryTime == timestamp - UsageSessionTimeout
        Kept(end) == IF end # NoTime /\ end <= sessionExpiryTime THEN NoTime ELSE end
        bySource == [src \in UsageSources |-> Kept(session.bySource[src])]
    IN [session |-> [session EXCEPT !.bySource = bySource, !.byUid = Kept(@)],
        completed |-> \A src \in UsageSources : bySource[src] = NoTime]

\* mLogger.logInputDeviceUsageReported(info, activeSession.finishSession())
\* and the erase that follows it.
reportAndErase(c, deviceId) ==
    [c EXCEPT !.reports[deviceId] = @ + 1,
              !.sessions[deviceId] = NoSession]

RECURSIVE reportAll(_, _)
reportAll(c, deviceIds) ==
    IF deviceIds = {} THEN c
    ELSE LET deviceId == CHOOSE d \in deviceIds : TRUE
         IN reportAll(reportAndErase(c, deviceId), deviceIds \ {deviceId})

onInputDeviceInteraction(c, interaction) ==
    IF c.sessions[interaction.device] = NoSession THEN c
    ELSE [c EXCEPT !.sessions[interaction.device] =
                       recordInteraction(@, interaction.timestamp)]

RECURSIVE processInteractions(_)
processInteractions(c) ==
    IF c.queue = <<>> THEN c
    ELSE processInteractions(
             [onInputDeviceInteraction(c, Head(c.queue)) EXCEPT !.queue = Tail(c.queue)])

reportCompletedSessions(c) ==
    LET c1 == processInteractions(c)
        active == {d \in MetricsDevices : c1.sessions[d] # NoSession}
        checked == [d \in MetricsDevices |->
                       IF d \in active THEN checkIfCompletedAt(c1.sessions[d], mcNow)
                       ELSE [session |-> NoSession, completed |-> FALSE]]
        completedUsageSessions == {d \in active : checked[d].completed}
        c2 == [c1 EXCEPT !.sessions = [d \in MetricsDevices |-> checked[d].session]]
    IN IF \E d \in completedUsageSessions : d \notin c2.logged
       THEN [c2 EXCEPT !.fatal = TRUE]
       ELSE reportAll(c2, completedUsageSessions)

onInputDeviceRemoved(c, deviceId) ==
    IF c.sessions[deviceId] = NoSession THEN c
    ELSE reportAndErase(c, deviceId)

RECURSIVE removeAll(_, _)
removeAll(c, deviceIds) ==
    IF deviceIds = {} THEN c
    ELSE LET deviceId == CHOOSE d \in deviceIds : TRUE
         IN removeAll(onInputDeviceRemoved(c, deviceId), deviceIds \ {deviceId})

onInputDevicesChanged(c, infos) ==
    LET newDeviceInfos == {d \in infos : ~isIgnoredInputDeviceId(d)}
        gone == {d \in c.logged : d \notin newDeviceInfos}
    IN [removeAll(c, gone) EXCEPT !.logged = newDeviceInfos]

\* onInputDeviceUsage tracking the devices that are not logged as well.
onInputDeviceUsage_TracksUnlogged(c, deviceId, eventTime, sources) ==
    LET session == IF c.sessions[deviceId] = NoSession
                   THEN [NoSession EXCEPT !.end = eventTime]
                   ELSE c.sessions[deviceId]
    IN [c EXCEPT !.sessions[deviceId] = recordUsage(session, eventTime, sources)]

onInputDeviceUsage(c, deviceId, eventTime, sources) ==
    IF deviceId \notin c.logged THEN c
    ELSE LET session == IF c.sessions[deviceId] = NoSession
                        THEN [NoSession EXCEPT !.end = eventTime]
                        ELSE c.sessions[deviceId]
         IN [c EXCEPT !.sessions[deviceId] = recordUsage(session, eventTime, sources)]

\* The call leaves the collector as c.
McReturns(c) ==
    /\ mLoggedDeviceInfos' = c.logged
    /\ mActiveUsageSessions' = c.sessions
    /\ mInteractionsQueue' = c.queue
    /\ mcReports' = c.reports
    /\ mcNotified' = TRUE
    /\ mcFatal' = c.fatal

notifyInputDevicesChanged ==
    \E infos \in SUBSET MetricsDevices :
        /\ ~mcFatal
        /\ LET c == reportCompletedSessions(Collector)
           IN McReturns(IF c.fatal THEN c ELSE onInputDevicesChanged(c, infos))
        /\ UNCHANGED <<mcNow, metricsFrame>>

\* notifyKey and notifyMotion: the event of a device, with a time that is
\* not before the device's last event and not after the clock, and the
\* usage sources getSources gives for it.
notifyKeyOrMotion ==
    \E deviceId \in MetricsDevices, eventTime \in {mcNow - 1, mcNow},
       sources \in (SUBSET UsageSources) \ {{}} :
        /\ ~mcFatal
        /\ eventTime >= 0
        /\ eventTime >= mActiveUsageSessions[deviceId].end
        /\ LET c == reportCompletedSessions(Collector)
           IN McReturns(IF c.fatal THEN c
                        ELSE onInputDeviceUsage(c, deviceId, eventTime, sources))
        /\ UNCHANGED <<mcNow, metricsFrame>>

\* notifyConfigurationChanged, notifySwitch, notifySensor,
\* notifyVibratorState, notifyDeviceReset and notifyPointerCaptureChanged.
notifyOther ==
    /\ ~mcFatal
    /\ McReturns(reportCompletedSessions(Collector))
    /\ UNCHANGED <<mcNow, metricsFrame>>

notifyDeviceInteraction ==
    \E deviceId \in MetricsDevices :
        /\ ~mcFatal
        /\ Len(mInteractionsQueue) < MaxInteractions
        /\ mInteractionsQueue' =
               IF isIgnoredInputDeviceId(deviceId) THEN mInteractionsQueue
               ELSE Append(mInteractionsQueue, [device |-> deviceId, timestamp |-> mcNow])
        /\ mcReports' = NoReports
        /\ mcNotified' = FALSE
        /\ UNCHANGED <<mLoggedDeviceInfos, mActiveUsageSessions, mcNow, mcFatal,
                       metricsFrame>>

\* Time passes.
McTick ==
    /\ ~mcFatal
    /\ mcNow < MaxClock
    /\ mcNow' = mcNow + 1
    /\ mcReports' = NoReports
    /\ mcNotified' = FALSE
    /\ UNCHANGED <<mLoggedDeviceInfos, mActiveUsageSessions, mInteractionsQueue, mcFatal,
                   metricsFrame>>

NextMetrics ==
    \/ notifyInputDevicesChanged
    \/ notifyKeyOrMotion
    \/ notifyOther
    \/ notifyDeviceInteraction
    \/ McTick

SpecMetrics == Init /\ [][NextMetrics]_vars

(***************************************************************************)
(* SpecActivityManager: one thread calling registerUidObserver on an       *)
(* ActivityManager (libs/binder/ActivityManager.cpp), that is getService   *)
(* and then the call on the service it returns, while the binders of the   *)
(* activity service die and the thread pool is started.  getService holds  *)
(* mLock from entry to return; the test of its while loop, the call of     *)
(* checkService with what follows it, and the return of usleep are steps.  *)
(* The clock advances by one with each usleep.  A binder that has died     *)
(* stays dead.                                                             *)
(***************************************************************************)
amFrame == <<earlierVars, laterBase, virtualVars, touchpadVars, metricsVars, gpuVars>>

isBinderAlive(service) == service \in amAlive

\* What checkService and waitForService can return.
ServiceManagerReplies == {NULL} \cup AmBinders

\* getService returns mService as `returned`, having left its loop by giving
\* up or not, and registerUidObserver finishes with it.
AmReturns(returned, polled, gaveUp, foundDead) ==
    /\ amPc' = "idle"
    /\ amLock' = FALSE
    /\ amService' = NULL
    /\ amStartTime' = 0
    /\ amFoundDead' = {}
    /\ amLast' = [op |-> "registerUidObserver", polled |-> polled, gaveUp |-> gaveUp,
                  foundDead |-> foundDead,
                  status |-> IF returned # NULL THEN "forwarded" ELSE "DEAD_OBJECT",
                  called |-> returned]

\* registerUidObserver enters getService: the lock, the copy of mService and
\* the test of the thread pool.  A call begins while the clock leaves room
\* for the sleeps up to giving up.
AmGetService ==
    /\ amPc = "idle"
    /\ ~amLock
    /\ amClock + GiveUpLimit + 1 <= MaxAmClock
    /\ amLock' = TRUE
    /\ amService' = mService
    /\ amStartTime' = 0
    /\ amFoundDead' = {}
    /\ amPc' = IF amPoolStarted THEN "waiting" ELSE "polling"
    /\ amLast' = NoAmCall
    /\ UNCHANGED <<mService, amAlive, amPoolStarted, amClock, amFrame>>

\* The branch of a started thread pool.
AmWaitForService ==
    /\ amPc = "waiting"
    /\ IF amService = NULL \/ ~isBinderAlive(amService)
       THEN \E binder \in ServiceManagerReplies :
                /\ mService' = binder
                /\ AmReturns(binder, FALSE, FALSE,
                             IF amService = NULL THEN {} ELSE {amService})
       ELSE /\ AmReturns(mService, FALSE, FALSE, {})
            /\ UNCHANGED mService
    /\ UNCHANGED <<amAlive, amPoolStarted, amClock, amFrame>>

\* The condition of the while loop.
AmLoopTest ==
    /\ amPc = "polling"
    /\ IF amService # NULL /\ isBinderAlive(amService)
       THEN AmReturns(mService, TRUE, FALSE, amFoundDead)
       ELSE /\ amPc' = "checkService"
            /\ amFoundDead' = amFoundDead \cup (IF amService = NULL THEN {} ELSE {amService})
            /\ UNCHANGED <<amLock, amService, amStartTime, amLast>>
    /\ UNCHANGED <<mService, amAlive, amPoolStarted, amClock, amFrame>>

\* The body of the loop up to usleep or to the next test.
AmCheckService ==
    \E binder \in ServiceManagerReplies :
        /\ amPc = "checkService"
        /\ IF binder = NULL
           THEN IF amStartTime = 0
                THEN /\ amStartTime' = amClock
                     /\ amPc' = "sleeping"
                     /\ UNCHANGED <<mService, amLock, amService, amFoundDead, amLast>>
                ELSE IF amClock - amStartTime > GiveUpLimit
                THEN /\ AmReturns(mService, TRUE, TRUE, amFoundDead)
                     /\ UNCHANGED mService
                ELSE /\ amPc' = "sleeping"
                     /\ UNCHANGED <<mService, amLock, amService, amStartTime, amFoundDead,
                                    amLast>>
           ELSE /\ amService' = binder
                /\ mService' = binder
                /\ amPc' = "polling"
                /\ UNCHANGED <<amLock, amStartTime, amFoundDead, amLast>>
        /\ UNCHANGED <<amAlive, amPoolStarted, amClock, amFrame>>

\* usleep(25000) returns.
AmSleepReturns ==
    /\ amPc = "sleeping"
    /\ amClock < MaxAmClock
    /\ amClock' = amClock + 1
    /\ amPc' = "polling"
    /\ UNCHANGED <<mService, amAlive, amPoolStarted, amLock, amService, amStartTime,
                   amFoundDead, amLast, amFrame>>

\* The process of an activity service dies.
AmServiceDies ==
    \E binder \in amAlive :
        /\ amAlive' = amAlive \ {binder}
        /\ UNCHANGED <<mService, amPoolStarted, amPc, amLock, amService, amStartTime,
                       amClock, amFoundDead, amLast, amFrame>>

\* ProcessState::startThreadPool, on another thread.
AmStartThreadPool ==
    /\ ~amPoolStarted
    /\ amPoolStarted' = TRUE
    /\ UNCHANGED <<mService, amAlive, amPc, amLock, amService, amStartTime, amClock,
                   amFoundDead, amLast, amFrame>>

NextActivityManager ==
    \/ AmGetService
    \/ AmWaitForService
    \/ AmLoopTest
    \/ AmCheckService
    \/ AmSleepReturns
    \/ AmServiceDies
    \/ AmStartThreadPool

SpecActivityManager == Init /\ [][NextActivityManager]_vars

\* The thread inside getService goes on running and its sleeps end.
SpecActivityManagerFair ==
    /\ SpecActivityManager
    /\ WF_vars(AmWaitForService)
    /\ WF_vars(AmLoopTest)
    /\ WF_vars(AmCheckService)
    /\ WF_vars(AmSleepReturns)

(***************************************************************************)
(* SpecGraphicsEnv: the GpuStats calls of GraphicsEnv (libs/graphicsenv/   *)
(* GraphicsEnv.cpp) made by the threads of a process, and the thread that  *)
(* hintActivityLaunch spawns.  Each of them holds mStatsLock over the      *)
(* whole of what it does with the stats, so that each locked region is a   *)
(* step; the thread spawned takes the lock in a step of its own, after     *)
(* hintActivityLaunch has released it.                                     *)
(***************************************************************************)
gpuFrame == <<earlierVars, laterBase, virtualVars, touchpadVars, metricsVars, amVars>>

readyToSendGpuStatsLocked(launched, package) == launched /\ package # ""

\* getGpuService: the binder is looked up by the first call, which gets
\* `reply`, and kept.
getGpuService(binder, reply) == IF binder = "unchecked" THEN reply ELSE binder

\* sendGpuStatsLocked(api, ...) with g the binder kept and the calls of
\* IGpuService::setGpuStats made so far.
sendGpuStatsLocked(g, api, reply) ==
    IF ~readyToSendGpuStatsLocked(mActivityLaunched, appPackageName) THEN g
    ELSE LET gpuService == getGpuService(g.binder, reply)
         IN [binder |-> gpuService,
             sent |-> IF gpuService = "gpu" THEN [g.sent EXCEPT ![api] = @ + 1] ELSE g.sent]

GpuService == [binder |-> gpuBinder, sent |-> gpuStatsSent]

GpuReturns(g) ==
    /\ gpuBinder' = g.binder
    /\ gpuStatsSent' = g.sent

\* The locked region of hintActivityLaunch and the std::thread it makes.
hintActivityLaunch ==
    /\ IF mActivityLaunched
       THEN UNCHANGED <<mActivityLaunched, trySendGpuStatsThread>>
       ELSE /\ mActivityLaunched' = TRUE
            /\ trySendGpuStatsThread' = "spawned"
    /\ UNCHANGED <<appPackageName, driverToSend, driverLoads, gpuBinder, gpuStatsSent,
                   gpuFrame>>

\* The body of the thread.
TrySendGpuStats ==
    \E reply \in {"null", "gpu"} :
        /\ trySendGpuStatsThread = "spawned"
        /\ trySendGpuStatsThread' = "done"
        /\ driverToSend' = [api \in GpuApis |-> FALSE]
        /\ LET gl == IF driverToSend["API_GL"]
                     THEN sendGpuStatsLocked(GpuService, "API_GL", reply)
                     ELSE GpuService
           IN GpuReturns(IF driverToSend["API_VK"]
                         THEN sendGpuStatsLocked(gl, "API_VK", reply)
                         ELSE gl)
        /\ UNCHANGED <<mActivityLaunched, appPackageName, driverLoads, gpuFrame>>

setGpuStats ==
    \E package \in {"", "app"} :
        /\ appPackageName' = package
        /\ UNCHANGED <<mActivityLaunched, driverToSend, trySendGpuStatsThread, driverLoads,
                       gpuBinder, gpuStatsSent, gpuFrame>>

setDriverLoaded(api, reply) ==
    /\ driverLoads[api] < MaxDriverLoads
    /\ driverLoads' = [driverLoads EXCEPT ![api] = @ + 1]
    /\ driverToSend' = [driverToSend EXCEPT ![api] = TRUE]
    /\ GpuReturns(sendGpuStatsLocked(GpuService, api, reply))
    /\ UNCHANGED <<mActivityLaunched, appPackageName, trySendGpuStatsThread, gpuFrame>>

SetDriverLoaded ==
    \E api \in GpuApis, reply \in {"null", "gpu"} : setDriverLoaded(api, reply)

NextGraphicsEnv ==
    \/ hintActivityLaunch
    \/ TrySendGpuStats
    \/ setGpuStats
    \/ SetDriverLoaded

SpecGraphicsEnv == Init /\ [][NextGraphicsEnv]_vars

(***************************************************************************)
(* Properties.                                                             *)
(***************************************************************************)
ParceledSetters ==
    {"setRequestingSid", "setInheritRt", "setMinSchedulerPolicy", "setExtension"}

\* C1: once setParceled() has been called the object stays parceled, and
\* every later call of setRequestingSid, setInheritRt, setMinSchedulerPolicy
\* or setExtension, whatever its argument, hits the fatal check: the process
\* aborts, the Extras pointer and fields keep their values, and nothing runs
\* after the abort.
C1_ParceledImmutable ==
    [][/\ mParceled => mParceled'
       /\ ~aborted
       /\ (mParceled /\ lastOp'.op \in ParceledSetters) =>
            /\ aborted'
            /\ lastOp'.status = "FATAL"
            /\ UNCHANGED <<mExtras, heap, extrasFields>>]_vars

\* A parceled object on which setExtension(1) was called: the process has
\* aborted and the extension is still null.
C1_Witness ==
    /\ mParceled
    /\ aborted
    /\ lastOp.op = "setExtension"
    /\ lastOp.args.v = 1
    /\ mExtension = NULL

LiveExtras == {a \in Allocs : heap[a] = "live"}

\* C2: when NThreads threads race getOrCreateExtras() on an object without
\* Extras, the published block is never freed, every thread that has
\* returned holds the published pointer, and once all have returned exactly
\* one block is live (the published one): each loser has freed its own.
C2_SingleExtras ==
    /\ mExtras # NULL => heap[mExtras] = "live"
    /\ \A t \in Threads : pc[t] = "done" => (e[t] # NULL /\ e[t] = mExtras)
    /\ (\A t \in Threads : pc[t] = "done") => LiveExtras = {mExtras}

\* All threads have returned and at least two of them lost the race and
\* freed their block.
C2_Witness ==
    /\ \A t \in Threads : pc[t] = "done"
    /\ mExtras # NULL
    /\ Cardinality({a \in Allocs : heap[a] = "freed"}) >= 2

\* C3: a BpRefBase around a remote on which onFirstRef fired and which is
\* destroyed after its strong count reached zero: the destructor did not
\* release the remote's strong reference, every onLastStrongRef released it
\* once, so with one onLastStrongRef the remote was decremented exactly once
\* in total; and the decrements equal the increments the proxy made.
C3_ConfirmedTransfer ==
    (bp.life = "destroyed" /\ bp.mRemote # NULL /\ tally.firstRefs > 0) =>
        /\ tally.dtorDec = 0
        /\ tally.lastRefs >= 1
        /\ tally.lastDec = tally.lastRefs
        /\ tally.lastRefs = 1 => tally.lastDec + tally.dtorDec = 1
        /\ tally.lastDec + tally.dtorDec = tally.ctorInc + tally.attemptInc

\* The proxy was acquired, released once and destroyed.
C3_Witness ==
    /\ bp.life = "destroyed"
    /\ bp.mRemote # NULL
    /\ tally.firstRefs = 1
    /\ tally.lastRefs = 1
    /\ tally.lastDec = 1

\* C4: a BpRefBase around a remote that is destroyed without ever having had
\* a strong reference has decremented the remote's strong count exactly once
\* (in its destructor) and its weak count exactly once.
C4_UnacquiredRelease ==
    (bp.life = "destroyed" /\ bp.mRemote # NULL /\ refs.initial) =>
        /\ tally.lastDec + tally.dtorDec = 1
        /\ tally.dtorDec = 1
        /\ tally.weakDec = 1

\* The proxy was destroyed without a strong reference, after the caller had
\* dropped its own reference to the remote.
C4_Witness ==
    /\ bp.life = "destroyed"
    /\ bp.mRemote # NULL
    /\ refs.initial
    /\ ~remote.callerHolds
    /\ remote.strong = 0
    /\ remote.weak = 0

\* The links in the set whose keep-alive binder is k.
LinksOn(k) == {l \in mRpcServerLinks : links[l].mKeepAliveBinder = k}

\* C5: when the keep-alive binder of links that successful setRpcClientDebug
\* calls put in the set dies, each such link leaves the owner's link set, its
\* server is shut down by that death, the link afterwards holds neither the
\* server nor the reference to its owner; and no server is ever shut down
\* more than once.
C5_DeathTearsDown ==
    [][/\ lastOp'.op = "sendObituary" =>
            \A l \in LinksOn(lastOp'.args.k) :
                /\ l \notin mRpcServerLinks'
                /\ servers[links[l].mRpcServer].shutdowns = 0
                /\ servers'[links[l].mRpcServer].shutdowns = 1
                /\ ~servers'[links[l].mRpcServer].started
                /\ links'[l].mRpcServer = NULL
                /\ ~links'[l].mBinder
       /\ \A s \in ServerIds : servers'[s].shutdowns <= 1
       /\ \A s \in ServerIds : servers'[s].shutdowns >= servers[s].shutdowns]_vars

\* The keep-alive binder 1 of a link set up by a successful call has died:
\* the link is out of the set and its server was shut down once, while the
\* link on the other keep-alive binder is still in the set.
C5_Witness ==
    /\ lastOp.op = "sendObituary"
    /\ lastOp.args.k = 1
    /\ links[1].state = "died"
    /\ links[1].mKeepAliveBinder = 1
    /\ servers[1].transport
    /\ servers[1].shutdowns = 1
    /\ mRpcServerLinks = {2}

IsRpcTransact(c) ==
    c.op = "transact" /\ c.args.code = "SET_RPC_CLIENT_TRANSACTION"

\* The call is an RPC-debug setup, arriving either way.
IsRpcSetup(c) == c.op = "setRpcClientDebug" \/ IsRpcTransact(c)

\* C7: whenever setRpcClientDebug returns a status other than OK the link
\* set is unchanged, no link has been left registered as a death recipient
\* on a keep-alive binder, and no RPC server has been left running.
C7_NoPartialState ==
    [][(IsRpcSetup(lastOp') /\ lastOp'.status \notin {"OK", "FATAL"}) =>
            /\ mRpcServerLinks' = mRpcServerLinks
            /\ recipients' = recipients
            /\ \A s \in ServerIds : servers'[s].started => servers[s].started]_vars

\* C8 as stated: an RPC-debug setup by a caller that is not root, arriving
\* as a transaction or as a direct call, is refused with PERMISSION_DENIED
\* before any state change.
C8_EverySetupNeedsRoot ==
    [][(IsRpcSetup(lastOp') /\ lastOp'.args.uid # kUidRoot) =>
            /\ lastOp'.status = "PERMISSION_DENIED"
            /\ UNCHANGED <<mExtras, heap, rpcVars>>]_vars

\* C8, amended: a SET_RPC_CLIENT_TRANSACTION from a caller that is not root
\* is refused with PERMISSION_DENIED before any state change (no Extras is
\* allocated, no server is made, no death link is registered, the link set
\* is unchanged); the direct call never refuses with PERMISSION_DENIED.
C8_TransactionNeedsRoot ==
    [][/\ (IsRpcTransact(lastOp') /\ lastOp'.args.uid # kUidRoot) =>
            /\ lastOp'.status = "PERMISSION_DENIED"
            /\ UNCHANGED <<mExtras, heap, rpcVars>>
       /\ lastOp'.op = "setRpcClientDebug" =>
            lastOp'.status # "PERMISSION_DENIED"]_vars

\* A caller that is not root sent a well-formed SET_RPC_CLIENT_TRANSACTION
\* (a socket and a live remote keep-alive binder, the thread pool allowing
\* it) to an object without Extras: it was refused and nothing was made.
C8_Witness ==
    /\ IsRpcTransact(lastOp)
    /\ lastOp.args.uid # kUidRoot
    /\ lastOp.args.data =
         RpcParcel(TRUE, <<Item("fd", SocketFd)>>, <<Item("binder", 1)>>)
    /\ alive[1]
    /\ threadPoolMax > 1
    /\ lastOp.status = "PERMISSION_DENIED"
    /\ mExtras = NULL
    /\ nextId = 0

\* C9 as stated: the direct call returns BAD_VALUE, without allocating a
\* server, when the socket is not ok; UNEXPECTED_NULL when the keep-alive
\* binder is null; INVALID_OPERATION when the thread pool's maximum is at
\* most 1.
C9_EachPrecondition ==
    [][lastOp'.op = "setRpcClientDebug" =>
            /\ lastOp'.args.socketFd = NoFd =>
                 /\ lastOp'.status = "BAD_VALUE"
                 /\ UNCHANGED <<nextId, servers>>
            /\ lastOp'.args.keepAliveBinder = NULL =>
                 lastOp'.status = "UNEXPECTED_NULL"
            /\ threadPoolMax <= 1 =>
                 lastOp'.status = "INVALID_OPERATION"]_vars

\* C9, amended: the direct call returns BAD_VALUE, without allocating a
\* server, when the socket is not ok; UNEXPECTED_NULL when the socket is ok
\* and the keep-alive binder is null; INVALID_OPERATION when the socket is
\* ok, the keep-alive binder is not null and the thread pool's maximum is at
\* most 1.
C9_FirstFailedPrecondition ==
    [][lastOp'.op = "setRpcClientDebug" =>
            /\ lastOp'.args.socketFd = NoFd =>
                 /\ lastOp'.status = "BAD_VALUE"
                 /\ UNCHANGED <<nextId, servers>>
            /\ (lastOp'.args.socketFd # NoFd /\ lastOp'.args.keepAliveBinder = NULL) =>
                 lastOp'.status = "UNEXPECTED_NULL"
            /\ (/\ lastOp'.args.socketFd # NoFd
                /\ lastOp'.args.keepAliveBinder # NULL
                /\ threadPoolMax <= 1) =>
                 lastOp'.status = "INVALID_OPERATION"]_vars

\* The direct call was made with no socket, a null keep-alive binder and a
\* thread pool of one thread: it returned BAD_VALUE and made no server.
C9_Witness ==
    /\ lastOp.op = "setRpcClientDebug"
    /\ lastOp.args.socketFd = NoFd
    /\ lastOp.args.keepAliveBinder = NULL
    /\ threadPoolMax <= 1
    /\ lastOp.status = "BAD_VALUE"
    /\ nextId = 0

IsStart(c) ==
    \/ c.op = "startRecordingTransactions"
    \/ c.op = "transact" /\ c.args.code = "START_RECORDING_TRANSACTION"

IsStop(c) ==
    \/ c.op = "stopRecordingTransactions"
    \/ c.op = "transact" /\ c.args.code = "STOP_RECORDING_TRANSACTION"

\* C10: a start by root with a valid fd returns OK and turns recording on
\* when it is off, and returns INVALID_OPERATION and leaves it on when it is
\* on (so two starts in a row return OK then INVALID_OPERATION); a stop by
\* root returns INVALID_OPERATION when recording is off and OK, turning it
\* off, when it is on; and over any sequence of calls a start returns OK
\* only from the not-recording state and a stop only from the recording
\* state.
C10_StartStop ==
    [][/\ (/\ IsStart(lastOp')
           /\ lastOp'.args.uid = kUidRoot
           /\ lastOp'.args.data = <<Item("fd", RecordingFd)>>) =>
            /\ lastOp'.status = (IF mRecordingOn THEN "INVALID_OPERATION" ELSE "OK")
            /\ mRecordingOn'
            /\ mRecordingFd' = RecordingFd
       /\ (IsStop(lastOp') /\ lastOp'.args.uid = kUidRoot) =>
            /\ lastOp'.status = (IF mRecordingOn THEN "OK" ELSE "INVALID_OPERATION")
            /\ ~mRecordingOn'
       /\ (IsStart(lastOp') /\ lastOp'.status = "OK") => (~mRecordingOn /\ mRecordingOn')
       /\ (IsStop(lastOp') /\ lastOp'.status = "OK") => (mRecordingOn /\ ~mRecordingOn')
       /\ mRecordingOn' # mRecordingOn =>
            (IsStart(lastOp') \/ IsStop(lastOp')) /\ lastOp'.status = "OK"]_vars

\* Root started a recording with a valid fd while one was on: the call
\* returned INVALID_OPERATION and the recording is still on.
C10_Witness ==
    /\ IsStart(lastOp)
    /\ lastOp.args.uid = kUidRoot
    /\ lastOp.args.data = <<Item("fd", RecordingFd)>>
    /\ lastOp.status = "INVALID_OPERATION"
    /\ mRecordingOn
    /\ mRecordingFd = RecordingFd

\* C11: a start of the recording by a caller that is not root, as a direct
\* call or as a START_RECORDING_TRANSACTION, returns PERMISSION_DENIED and
\* changes neither the recording state nor the recording fd nor the Extras:
\* when no recording is on, none is on afterwards and no fd is stored.
C11_StartNeedsRoot ==
    [][(IsStart(lastOp') /\ lastOp'.args.uid # kUidRoot) =>
            /\ lastOp'.status = "PERMISSION_DENIED"
            /\ UNCHANGED <<mRecordingOn, mRecordingFd, mExtras, heap>>
            /\ ~mRecordingOn => (~mRecordingOn' /\ mRecordingFd' = NoFd)]_vars

\* A caller that is not root asked a fresh object to start recording into a
\* valid fd: it was refused, no recording is on and no fd is stored.
C11_Witness ==
    /\ IsStart(lastOp)
    /\ lastOp.args.uid # kUidRoot
    /\ lastOp.args.data = <<Item("fd", RecordingFd)>>
    /\ lastOp.status = "PERMISSION_DENIED"
    /\ ~mRecordingOn
    /\ mRecordingFd = NoFd
    /\ mExtras = NULL

\* The snapshot BBinder::transact makes of the call described by c.
SnapshotOf(c, fd) ==
    [fd |-> fd, code |-> c.args.code, data |-> c.args.data,
     hasReply |-> c.args.hasReply, err |-> c.status]

\* C12 as stated: when a recording is on after the dispatch of a transaction
\* that is not START_RECORDING_TRANSACTION, exactly one snapshot of it is
\* appended to the recording fd, and otherwise none.
C12_ExactlyOneSnapshot ==
    [][(lastOp'.op = "transact" /\ lastOp'.status # "FATAL") =>
            recorded' = IF mRecordingOn' /\ lastOp'.args.code # "START_RECORDING_TRANSACTION"
                        THEN Append(recorded, SnapshotOf(lastOp', mRecordingFd'))
                        ELSE recorded]_vars

\* C12, amended: a transact() call appends at most one snapshot, and only
\* when a recording is on after its dispatch and its code is not
\* START_RECORDING_TRANSACTION; the snapshot is of that transaction (code,
\* input data, reply, result status) and goes to the recording fd; nothing
\* is appended when the snapshot cannot be built or written.  A
\* START_RECORDING_TRANSACTION is never recorded, and no other call records.
C12_AtMostOneSnapshot ==
    [][/\ lastOp'.op = "transact" =>
            /\ \/ recorded' = recorded
               \/ recorded' = Append(recorded, SnapshotOf(lastOp', mRecordingFd'))
            /\ recorded' # recorded =>
                 /\ mRecordingOn'
                 /\ mRecordingFd' = RecordingFd
                 /\ lastOp'.args.code # "START_RECORDING_TRANSACTION"
                 /\ lastOp'.status # "FATAL"
       /\ lastOp'.op # "transact" => recorded' = recorded
       /\ \A i \in 1..Len(recorded') :
            recorded'[i].code # "START_RECORDING_TRANSACTION"]_vars

\* A transaction that failed while a recording was on was recorded with its
\* status.
C12_Witness ==
    /\ lastOp.op = "transact"
    /\ lastOp.args.code = "SYSPROPS_TRANSACTION"
    /\ lastOp.status = "INVALID_OPERATION"
    /\ mRecordingOn
    /\ recorded = <<SnapshotOf(lastOp, RecordingFd)>>

\* The statuses the dispatch step of BBinder::transact can produce for the
\* call with arguments a on an object whose recording state is on.
DispatchStatuses(a, on) ==
    CASE a.code = "PING_TRANSACTION" -> {"OK"}
      [] a.code = "START_RECORDING_TRANSACTION" ->
           IF a.uid # kUidRoot THEN {"PERMISSION_DENIED"}
           ELSE IF on THEN {"INVALID_OPERATION"}
           ELSE {readStatus(a.data, 1, "fd")}
      [] a.code = "STOP_RECORDING_TRANSACTION" ->
           IF a.uid # kUidRoot THEN {"PERMISSION_DENIED"}
           ELSE IF on THEN {"OK"}
           ELSE {"INVALID_OPERATION"}
      [] a.code \in {"EXTENSION_TRANSACTION", "DEBUG_PID_TRANSACTION",
                     "INTERFACE_TRANSACTION"} ->
           {IF a.hasReply THEN "OK" ELSE "FATAL"}
      [] a.code \in {"DUMP_TRANSACTION", "SHELL_COMMAND_TRANSACTION"} -> {"OK"}
      [] a.code = "SYSPROPS_TRANSACTION" -> {"OK", "INVALID_OPERATION"}
      [] a.code = "SET_RPC_CLIENT_TRANSACTION" ->
           {"OK", "FATAL", "PERMISSION_DENIED", "NOT_ENOUGH_DATA", "BAD_TYPE",
            "BAD_VALUE", "UNEXPECTED_NULL", "INVALID_OPERATION", "DEAD_OBJECT"}
      [] OTHER -> {"UNKNOWN_TRANSACTION"}

\* C13: the status BBinder::transact returns is the one its dispatch step
\* produced, whether or not a recording is on and whether or not the
\* snapshot was built and written; a snapshot that was written carries that
\* same status.
C13_StatusIsDispatchStatus ==
    [][lastOp'.op = "transact" =>
            /\ lastOp'.status \in DispatchStatuses(lastOp'.args, mRecordingOn)
            /\ recorded' # recorded =>
                 recorded'[Len(recorded')].err = lastOp'.status]_vars

\* While a recording was on and nothing had been recorded yet, a
\* PING_TRANSACTION was dispatched and its snapshot was not written: the
\* call still returned OK.
C13_Witness ==
    /\ lastOp.op = "transact"
    /\ lastOp.args.code = "PING_TRANSACTION"
    /\ mRecordingOn
    /\ recorded = <<>>
    /\ lastOp.status = "OK"

\* The Extras field thread t is reading or writing, if any.
Accessing(t) ==
    IF inCall[t].pc = "access" THEN AccessorOf(inCall[t].op).field ELSE "none"

\* The Extras fields declared under "for below objects" of Extras::mLock.
LockedFields == {"mRpcServerLinks", "mObjects", "mRecordingFd"}

\* C14 as stated: every access to any Extras field is made by a thread that
\* holds the object's Extras mutex.
C14_EveryFieldLocked ==
    \A t \in Threads : Accessing(t) # "none" => mLock = t

\* C14, amended: every access to the attached-object table, the RPC-link
\* set and the recording fd is made by the thread that holds the object's
\* Extras mutex, so no two threads are in such accesses at once; a thread
\* holding the mutex is in one of them; the extension, the scheduling policy
\* and priority, the requesting-SID flag and the inherit-RT flag are accessed
\* without the mutex.
C14_LockedFieldsSerialized ==
    /\ \A t \in Threads : Accessing(t) \in LockedFields => mLock = t
    /\ \A t, u \in Threads :
         (Accessing(t) \in LockedFields /\ Accessing(u) \in LockedFields) => t = u
    /\ mLock # NULL => (mLock \in Threads /\ Accessing(mLock) \in LockedFields)
    /\ \A t \in Threads :
         (Accessing(t) # "none" /\ Accessing(t) \notin LockedFields) => mLock # t

\* One thread is erasing from the RPC-link set under the mutex, another is
\* waiting for the mutex to stop a recording, and a third is writing the
\* extension without it.
C14_Witness ==
    /\ inCall[1] = [op |-> "removeRpcServerLink", pc |-> "access"]
    /\ mLock = 1
    /\ inCall[2] = [op |-> "stopRecordingTransactions", pc |-> "lock"]
    /\ inCall[3] = [op |-> "setExtension", pc |-> "access"]

\* The call is one of the three setters given its default value.
IsDefaultSet(c) ==
    \/ c.op \in {"setRequestingSid", "setInheritRt"} /\ c.args.v = FALSE
    \/ c.op = "setMinSchedulerPolicy" /\ c.args.v = <<"SCHED_NORMAL", 0>>

\* The call is one of the three setters given another value.
IsNonDefaultSet(c) ==
    \/ c.op \in {"setRequestingSid", "setInheritRt"} /\ c.args.v = TRUE
    \/ c.op = "setMinSchedulerPolicy" /\ c.args.v # <<"SCHED_NORMAL", 0>>

\* C15: on a BBinder with no Extras, setMinSchedulerPolicy(SCHED_NORMAL, 0),
\* setRequestingSid(false) and setInheritRt(false) return (unless the object
\* is parceled) leaving the Extras pointer null and allocating nothing; each
\* of the three, when it returns from a call with another value, has
\* allocated the Extras and stored the value in it.
C15_DefaultsDoNotAllocate ==
    [][mExtras = NULL =>
          /\ IsDefaultSet(lastOp') =>
               /\ lastOp'.status = (IF mParceled THEN "FATAL" ELSE "OK")
               /\ mExtras' = NULL
               /\ UNCHANGED <<heap, extrasFields>>
          /\ (IsNonDefaultSet(lastOp') /\ lastOp'.status # "FATAL") =>
               /\ mExtras' # NULL
               /\ heap[mExtras'] # "live"
               /\ heap'[mExtras'] = "live"
               /\ lastOp'.op = "setRequestingSid" => mRequestingSid' = lastOp'.args.v
               /\ lastOp'.op = "setInheritRt" => mInheritRt' = lastOp'.args.v
               /\ lastOp'.op = "setMinSchedulerPolicy" =>
                    <<mPolicy', mPriority'>> = lastOp'.args.v]_vars

\* setMinSchedulerPolicy(SCHED_NORMAL, 0) has returned on an object that
\* still has no Extras and on which nothing was ever allocated.
C15_Witness ==
    /\ lastOp = [op |-> "setMinSchedulerPolicy", args |-> [v |-> <<"SCHED_NORMAL", 0>>],
                 status |-> "OK"]
    /\ mExtras = NULL
    /\ \A a \in Allocs : heap[a] = "unalloc"


(***************************************************************************)
(* GestureConverter.                                                       *)
(***************************************************************************)
ActionsOf(out) == [i \in 1..Len(out) |-> out[i].action]

IsReset == gestureCall'.op = "reset"

IsGesture(type) == gestureCall'.op = "handleGesture" /\ gestureCall'.gesture.type = type

\* The actions that end a scroll, a swipe of n fingers, a pinch, or nothing.
EndOfGesture(classification, n) ==
    CASE classification = "TWO_FINGER_SWIPE" -> <<"UP">>
      [] classification = "MULTI_FINGER_SWIPE" ->
           [k \in 1..(n - 1) |-> "POINTER_UP"] \o <<"UP">>
      [] classification = "PINCH" -> <<"POINTER_UP", "UP">>
      [] OTHER -> <<>>

\* C16 as stated: reset() emits the events that end whatever is in progress
\* (ACTION_UP for a scroll, POINTER_UP events then ACTION_UP for a swipe or
\* pinch, one BUTTON_RELEASE per pressed button then ACTION_UP for held
\* buttons) and leaves no gesture in progress, no button pressed and the down
\* time cleared.
C16_ResetEndsEverything ==
    [][IsReset =>
         /\ ActionsOf(gestureOut') =
                EndOfGesture(mCurrentClassification, mSwipeFingerCount)
                \o (IF mButtonState # {}
                    THEN [k \in 1..Cardinality(mButtonState) |-> "BUTTON_RELEASE"] \o <<"UP">>
                    ELSE <<>>)
         /\ mCurrentClassification' = "NONE"
         /\ mButtonState' = {}
         /\ mDownTime' = 0]_vars

\* C16, amended: reset() always leaves no gesture in progress and the down time
\* cleared.  During a scroll, swipe or pinch it emits only the events ending
\* that gesture (ACTION_UP; POINTER_UP for indices n-1 down to 1 then ACTION_UP;
\* POINTER_UP then ACTION_UP) and leaves the button state as it was.  With no
\* gesture in progress it emits one BUTTON_RELEASE per pressed button, each
\* carrying the buttons still pressed, then ACTION_UP only if a pointer button
\* (primary, secondary, tertiary) was pressed, and leaves no button pressed.
C16_ResetEndsGestureOrButtons ==
    [][IsReset =>
         LET out == gestureOut'
             n == mSwipeFingerCount
             held == mButtonState
             nHeld == Cardinality(held)
         IN /\ mCurrentClassification' = "NONE"
            /\ mDownTime' = 0
            /\ \A i \in 1..Len(out) :
                   /\ out[i].classification = mCurrentClassification
                   /\ out[i].downTime = mDownTime
            /\ mCurrentClassification # "NONE" =>
                   /\ ActionsOf(out) = EndOfGesture(mCurrentClassification, n)
                   /\ mButtonState' = held
                   /\ \A i \in 1..Len(out) : out[i].buttonState = held
                   /\ out[Len(out)].pointerCount = 1
                   /\ mCurrentClassification = "MULTI_FINGER_SWIPE" =>
                          /\ mSwipeFingerCount' = 0
                          /\ \A k \in 1..(n - 1) :
                                 /\ out[k].pointerIndex = n - k
                                 /\ out[k].pointerCount = n - k + 1
                   /\ mCurrentClassification = "PINCH" =>
                          /\ out[1].pointerIndex = 1
                          /\ out[1].pointerCount = 2
            /\ mCurrentClassification = "NONE" =>
                   /\ mButtonState' = {}
                   /\ ActionsOf(out) =
                          [k \in 1..nHeld |-> "BUTTON_RELEASE"]
                          \o (IF isPointerDown(held) THEN <<"UP">> ELSE <<>>)
                   /\ {out[k].actionButton : k \in 1..nHeld} = held
                   /\ \A k \in 1..nHeld :
                          out[k].buttonState = held \ {out[j].actionButton : j \in 1..k}
                   /\ isPointerDown(held) => out[nHeld + 1].buttonState = {}]_vars

\* reset() has released two held buttons and lifted the pointer.
C16_Witness ==
    /\ gestureCall.op = "reset"
    /\ ActionsOf(gestureOut) = <<"BUTTON_RELEASE", "BUTTON_RELEASE", "UP">>
    /\ mButtonState = {}
    /\ mCurrentClassification = "NONE"
    /\ mDownTime = 0


\* The call ends the gesture in progress: a fling start during a scroll, a lift
\* during a multi-finger swipe, or a zoom end during a pinch.
EndsGesture ==
    \/ /\ IsGesture("kGestureTypeFling")
       /\ gestureCall'.gesture.arg = "GESTURES_FLING_START"
       /\ mCurrentClassification = "TWO_FINGER_SWIPE"
    \/ /\ \/ IsGesture("kGestureTypeSwipeLift")
          \/ IsGesture("kGestureTypeFourFingerSwipeLift")
       /\ mCurrentClassification = "MULTI_FINGER_SWIPE"
    \/ /\ IsGesture("kGestureTypePinch")
       /\ gestureCall'.gesture.arg = "GESTURES_ZOOM_END"
       /\ mCurrentClassification = "PINCH"

\* C17: a call that ends a scroll (fling start), a multi-finger swipe (lift) or
\* a pinch (zoom end) leaves the classification NONE, and while the
\* classification is NONE every call that does not start a scroll, swipe or
\* pinch emits only events classified NONE and leaves it NONE.
C17_ClassificationCleared ==
    [][/\ (mDisplayId # NoDisplay /\ EndsGesture) => mCurrentClassification' = "NONE"
       /\ (mCurrentClassification = "NONE" /\ mCurrentClassification' = "NONE") =>
              \A i \in 1..Len(gestureOut') : gestureOut'[i].classification = "NONE"
       /\ (mCurrentClassification = "NONE" /\ mCurrentClassification' # "NONE") =>
              \/ IsGesture("kGestureTypeScroll")
              \/ IsGesture("kGestureTypeSwipe")
              \/ IsGesture("kGestureTypeFourFingerSwipe")
              \/ IsGesture("kGestureTypePinch")]_vars

\* A fling start has just ended a scroll: the ACTION_UP still belongs to the
\* scroll and the converter is back to NONE.
C17_Witness ==
    /\ gestureCall.op = "handleGesture"
    /\ gestureCall.gesture.type = "kGestureTypeFling"
    /\ gestureCall.gesture.arg = "GESTURES_FLING_START"
    /\ ActionsOf(gestureOut) = <<"UP">>
    /\ gestureOut[1].classification = "TWO_FINGER_SWIPE"
    /\ mCurrentClassification = "NONE"


\* The call handles a buttons-change gesture on a converter with a display.
IsButtonsChange == IsGesture("kGestureTypeButtonsChange") /\ mDisplayId # NoDisplay

\* The place of an action in the order of one buttons-change gesture.
Rank(action) ==
    CASE action = "DOWN" -> 1
      [] action = "BUTTON_PRESS" -> 2
      [] action = "BUTTON_RELEASE" -> 3
      [] action = "UP" -> 4
      [] action = "HOVER_MOVE" -> 5
      [] OTHER -> 6

\* ACTION_DOWN (at most once, only when the pointer goes down) before the
\* presses, then the releases, then ACTION_UP followed at once by HOVER_MOVE
\* (only when no pointer button remains down).
ButtonsChangeOrder(out) ==
    /\ \A i \in 1..Len(out) : Rank(out[i].action) <= 5
    /\ \A i, j \in 1..Len(out) : i < j => Rank(out[i].action) <= Rank(out[j].action)
    /\ \A i, j \in 1..Len(out) :
           (i # j /\ out[i].action = out[j].action) =>
               out[i].action \in {"BUTTON_PRESS", "BUTTON_RELEASE"}
    /\ (\E i \in 1..Len(out) : out[i].action = "DOWN") =>
           /\ ~isPointerDown(mButtonState)
           /\ \E i \in 1..Len(out) :
                  out[i].action = "BUTTON_PRESS" /\ isPointerDown({out[i].actionButton})
    /\ \A i \in 1..Len(out) :
           out[i].action = "UP" =>
               /\ i + 1 = Len(out)
               /\ out[i + 1].action = "HOVER_MOVE"
               /\ ~isPointerDown(mButtonState')
    /\ \A i \in 1..Len(out) : out[i].action = "HOVER_MOVE" => out[i - 1].action = "UP"

\* The buttons pressed once the first k events of a buttons-change gesture
\* have happened, starting from the buttons pressed before the gesture.
PressedUpTo(out, k) ==
    (mButtonState \cup {out[j].actionButton :
                           j \in {x \in 1..k : out[x].action = "BUTTON_PRESS"}})
    \ {out[j].actionButton : j \in {x \in 1..k : out[x].action = "BUTTON_RELEASE"}}

\* C18 as stated: the events of one buttons-change gesture come in the order
\* ACTION_DOWN, BUTTON_PRESS*, BUTTON_RELEASE*, ACTION_UP, HOVER_MOVE and each
\* event's button state is the set of buttons pressed up to and including
\* that event (ACTION_DOWN being allowed to count the press that follows it).
C18_RunningButtonState ==
    [][IsButtonsChange =>
         LET out == gestureOut'
         IN /\ ButtonsChangeOrder(out)
            /\ \A k \in 1..Len(out) :
                   \/ out[k].buttonState = PressedUpTo(out, k)
                   \/ /\ out[k].action = "DOWN"
                      /\ out[k].buttonState = PressedUpTo(out, k + 1)]_vars

\* C18, amended: the order is as stated; each BUTTON_PRESS, BUTTON_RELEASE,
\* ACTION_UP and HOVER_MOVE carries the set of buttons pressed up to and
\* including that event, while ACTION_DOWN, although emitted first, carries
\* the button state after all the presses of the gesture.  The gesture leaves
\* the button state of its last event.
C18_DownCarriesAllPresses ==
    [][IsButtonsChange =>
         LET out == gestureOut'
             presses == {x \in 1..Len(out) : out[x].action = "BUTTON_PRESS"}
         IN /\ ButtonsChangeOrder(out)
            /\ \A k \in 1..Len(out) :
                   IF out[k].action = "DOWN"
                   THEN out[k].buttonState =
                            mButtonState \cup {out[j].actionButton : j \in presses}
                   ELSE out[k].buttonState = PressedUpTo(out, k)
            /\ out # <<>> => mButtonState' = PressedUpTo(out, Len(out))
            /\ out = <<>> => mButtonState' = mButtonState]_vars

\* Two buttons pressed by one gesture: ACTION_DOWN carries both, the first
\* BUTTON_PRESS only one.
C18_Witness ==
    /\ gestureCall.op = "handleGesture"
    /\ gestureCall.gesture.type = "kGestureTypeButtonsChange"
    /\ ActionsOf(gestureOut) = <<"DOWN", "BUTTON_PRESS", "BUTTON_PRESS">>
    /\ gestureOut[1].buttonState =
           {AMOTION_EVENT_BUTTON_PRIMARY, AMOTION_EVENT_BUTTON_SECONDARY}
    /\ gestureOut[2].buttonState = {AMOTION_EVENT_BUTTON_PRIMARY}
    /\ gestureOut[3].buttonState = gestureOut[1].buttonState


IsSwipe == IsGesture("kGestureTypeSwipe") \/ IsGesture("kGestureTypeFourFingerSwipe")

IsSwipeLift ==
    IsGesture("kGestureTypeSwipeLift") \/ IsGesture("kGestureTypeFourFingerSwipeLift")

\* C19: a swipe gesture of n fingers (3 or 4) arriving when no swipe is in
\* progress emits ACTION_DOWN, then POINTER_DOWN events with pointer counts 2
\* to n, then ACTION_MOVE with n pointers; further swipe gestures emit one
\* ACTION_MOVE with n pointers; a lift emits POINTER_UP for indices n-1 down to
\* 1, then ACTION_UP; all of them classified MULTI_FINGER_SWIPE.  A lift when
\* no swipe is in progress emits nothing.
C19_SwipeEvents ==
    [][mDisplayId # NoDisplay =>
         LET out == gestureOut'
             n == IF IsGesture("kGestureTypeSwipe") THEN 3 ELSE 4
             m == mSwipeFingerCount
             swiping == mCurrentClassification = "MULTI_FINGER_SWIPE"
         IN /\ (IsSwipe \/ (IsSwipeLift /\ swiping)) =>
                   \A i \in 1..Len(out) : out[i].classification = "MULTI_FINGER_SWIPE"
            /\ (IsSwipe /\ ~swiping) =>
                   /\ Len(out) = n + 1
                   /\ out[1].action = "DOWN" /\ out[1].pointerCount = 1
                   /\ \A i \in 1..(n - 1) :
                          /\ out[i + 1].action = "POINTER_DOWN"
                          /\ out[i + 1].pointerIndex = i
                          /\ out[i + 1].pointerCount = i + 1
                   /\ out[n + 1].action = "MOVE" /\ out[n + 1].pointerCount = n
                   /\ mCurrentClassification' = "MULTI_FINGER_SWIPE"
                   /\ mSwipeFingerCount' = n
            /\ (IsSwipe /\ swiping) =>
                   /\ ActionsOf(out) = <<"MOVE">>
                   /\ out[1].pointerCount = m
                   /\ m \in {3, 4}
                   /\ mCurrentClassification' = "MULTI_FINGER_SWIPE"
                   /\ mSwipeFingerCount' = m
            /\ (IsSwipeLift /\ swiping) =>
                   /\ Len(out) = m
                   /\ \A k \in 1..(m - 1) :
                          /\ out[k].action = "POINTER_UP"
                          /\ out[k].pointerIndex = m - k
                          /\ out[k].pointerCount = m - k + 1
                   /\ out[m].action = "UP" /\ out[m].pointerCount = 1
                   /\ mCurrentClassification' = "NONE"
            /\ (IsSwipeLift /\ ~swiping) =>
                   /\ out = <<>>
                   /\ UNCHANGED converterVars]_vars

\* A four-finger swipe has just been lifted: POINTER_UP for indices 3, 2, 1,
\* then ACTION_UP.
C19_Witness ==
    /\ gestureCall.op = "handleGesture"
    /\ gestureCall.gesture.type \in {"kGestureTypeSwipeLift", "kGestureTypeFourFingerSwipeLift"}
    /\ ActionsOf(gestureOut) = <<"POINTER_UP", "POINTER_UP", "POINTER_UP", "UP">>
    /\ gestureOut[1].pointerIndex = 3
    /\ gestureOut[3].pointerIndex = 1
    /\ gestureOut[1].classification = "MULTI_FINGER_SWIPE"
    /\ mCurrentClassification = "NONE"


\* C20: while taps are being prevented, a buttons-change gesture flagged as a
\* tap emits nothing and leaves the button state alone, a gesture that is not
\* a tap emits one BUTTON_PRESS per button down and one BUTTON_RELEASE per
\* button up (with ACTION_DOWN, ACTION_UP and HOVER_MOVE as the pointer goes
\* down and up); either way taps are no longer prevented afterwards.
C20_TapPrevention ==
    [][(IsButtonsChange /\ preventingTaps) =>
         LET out == gestureOut'
             gesture == gestureCall'.gesture
             ButtonsOf(action) ==
                 {out[i].actionButton : i \in {x \in 1..Len(out) : out[x].action = action}}
             CountOf(action) == Cardinality({x \in 1..Len(out) : out[x].action = action})
             Mapped(buttons) == {gesturesButtonToMotionEventButton(b) : b \in buttons}
         IN /\ preventingTaps' = FALSE
            /\ gesture.is_tap =>
                   /\ out = <<>>
                   /\ UNCHANGED <<mButtonState, mCurrentClassification, mDownTime,
                                  mSwipeFingerCount>>
            /\ ~gesture.is_tap =>
                   /\ ButtonsOf("BUTTON_PRESS") = Mapped(gesture.down)
                   /\ CountOf("BUTTON_PRESS") = Cardinality(gesture.down)
                   /\ ButtonsOf("BUTTON_RELEASE") = Mapped(gesture.up)
                   /\ CountOf("BUTTON_RELEASE") = Cardinality(gesture.up)
                   /\ mButtonState' = (mButtonState \cup Mapped(gesture.down))
                                          \ Mapped(gesture.up)
                   /\ (~isPointerDown(mButtonState) /\ isPointerDown(Mapped(gesture.down))) =>
                          out[1].action = "DOWN"
                   /\ (isPointerDown(mButtonState \cup Mapped(gesture.down))
                         /\ ~isPointerDown(mButtonState')) =>
                          /\ out[Len(out) - 1].action = "UP"
                          /\ out[Len(out)].action = "HOVER_MOVE"]_vars

\* A tap has just been swallowed: the gesture pressed and released a button on
\* a converter with a display, nothing was emitted, and taps are allowed again.
C20_Witness ==
    /\ gestureCall.op = "handleGesture"
    /\ gestureCall.gesture.type = "kGestureTypeButtonsChange"
    /\ gestureCall.gesture.is_tap
    /\ gestureCall.gesture.down # {}
    /\ mDisplayId # NoDisplay
    /\ gestureOut = <<>>
    /\ mButtonState = {}
    /\ ~preventingTaps


(***************************************************************************)
(* servicedispatcher.                                                      *)
(***************************************************************************)
\* The operations that would pass a kernel-binder capability over RPC.
KernelBinderOps ==
    {"getService", "checkService", "addService", "registerForNotifications",
     "unregisterForNotifications", "registerClientCallback", "tryUnregisterService"}

\* C21: in manager mode, a call of getService, checkService, addService,
\* registerForNotifications, unregisterForNotifications, registerClientCallback
\* or tryUnregisterService returns INVALID_OPERATION and makes no call on the
\* wrapped service manager; a call of any other operation makes exactly that
\* call on it and returns its status and its value unchanged.
C21_KernelBinderOpsRejected ==
    [][(sdPc = "join" /\ sdPc' = "join") =>
         IF sdCall'.op \in KernelBinderOps
         THEN /\ sdCall'.status = "INVALID_OPERATION"
              /\ sdImplCalls' = sdImplCalls
         ELSE /\ sdCall'.status = sdCall'.implStatus
              /\ sdCall'.ret = sdCall'.implRet
              /\ sdImplCalls' = Append(sdImplCalls, sdCall'.op)]_vars

\* checkService has been refused after isDeclared had been forwarded: the
\* wrapped service manager has seen the one call only.
C21_Witness ==
    /\ sdPc = "join"
    /\ sdCall.op = "checkService"
    /\ sdCall.status = "INVALID_OPERATION"
    /\ sdImplCalls = <<"isDeclared">>

\* The exit status the command line and the build call for when the process
\* fails.
ExpectedExit ==
    IF ~sdArgv.debuggable THEN "EX_NOPERM"
    ELSE IF sdArgv.badOption \/ Len(sdArgv.operands) # 1 THEN "EX_USAGE"
    ELSE "EX_SOFTWARE"

\* C22: the port and a newline are written to standard output only once setup
\* has succeeded, and the process then blocks (it never ends); a process that
\* has ended has written a diagnostic to standard error and nothing to
\* standard output, and its status is EX_NOPERM on a non-debuggable build,
\* EX_USAGE for bad arguments and EX_SOFTWARE otherwise.
C22_ExitContract ==
    /\ sdStdout # <<>> =>
           /\ sdStdout = <<sdPort, "\n">>
           /\ sdPc \in {"pause", "join"}
           /\ sdExit = "running"
    /\ sdPc = "exited" =>
           /\ sdStderr # <<>>
           /\ sdStderr[Len(sdStderr)] # "WARNING: debug only"
           /\ sdStdout = <<>>
           /\ sdExit = ExpectedExit


(***************************************************************************)
(* Dispatch of transactions.                                               *)
(***************************************************************************)
\* The codes BBinder::transact or BBinder::onTransact has a case for.
HandledCodes ==
    {"PING_TRANSACTION", "START_RECORDING_TRANSACTION", "STOP_RECORDING_TRANSACTION",
     "EXTENSION_TRANSACTION", "DEBUG_PID_TRANSACTION", "SET_RPC_CLIENT_TRANSACTION",
     "INTERFACE_TRANSACTION", "DUMP_TRANSACTION", "SHELL_COMMAND_TRANSACTION",
     "SYSPROPS_TRANSACTION"}

\* C23: transact(PING_TRANSACTION, ...) returns OK, with or without a reply
\* parcel and in every state of the BBinder, a fresh one included; transact
\* with a code no handler has a case for returns UNKNOWN_TRANSACTION.
C23_PingAndUnknown ==
    lastOp.op = "transact" =>
        /\ lastOp.args.code = "PING_TRANSACTION" => lastOp.status = "OK"
        /\ lastOp.args.code \notin HandledCodes => lastOp.status = "UNKNOWN_TRANSACTION"

\* A fresh BBinder has answered a code nobody handles, sent with a reply
\* parcel.
C23_Witness ==
    /\ lastOp.op = "transact"
    /\ lastOp.args.code = "FIRST_CALL_TRANSACTION"
    /\ lastOp.args.hasReply
    /\ lastOp.status = "UNKNOWN_TRANSACTION"
    /\ mExtras = NULL
    /\ ~mRecordingOn
    /\ recorded = <<>>


DestroyedByStep ==
    {l \in LayerIds : mIdToLayer[l].state = "live" /\ mIdToLayer'[l].state = "destroyed"}

HandleGoneAfter(l) == ~mIdToLayer'[l].handleAlive

IsOnHandlesDestroyed ==
    \E l \in LayerIds : mIdToLayer[l].handleAlive /\ ~mIdToLayer'[l].handleAlive

\* Each layer is live and unreported, or waits for the commit unreported,
\* or has been reported once.
ReportedOnce ==
    \A l \in LayerIds :
        /\ destroyedReports[l] <= 1
        /\ destroyedReports[l] = 1 <=>
               (mIdToLayer[l].state = "destroyed" /\ l \notin mDestroyedLayers)
        /\ l \in mDestroyedLayers => mIdToLayer[l].state = "destroyed"

RECURSIVE TreeAncestors(_)
TreeAncestors(l) ==
    IF mParent[l] = NoParent THEN {} ELSE {mParent[l]} \cup TreeAncestors(mParent[l])

TreeDescendants(l) == {d \in TreeLayers : l \in TreeAncestors(d)}

HasOwnVote(l) == frameRate[l] # FRAME_RATE_NO_VOTE

\* The ancestor with a vote of its own that has no other between it and l.
NearestVotingAncestor(l) ==
    CHOOSE a \in TreeAncestors(l) :
        /\ HasOwnVote(a)
        /\ \A b \in TreeAncestors(l) : HasOwnVote(b) /\ b # a => b \in TreeAncestors(a)

\* What a layer reports when the descendants in treeVoters, if any, make it
\* vote for the tree.
ReportedVote(l, treeVoters) ==
    IF HasOwnVote(l) THEN frameRate[l]
    ELSE IF \E a \in TreeAncestors(l) : HasOwnVote(a)
         THEN frameRate[NearestVotingAncestor(l)]
    ELSE IF treeVoters # {} THEN FRAME_RATE_TREE
    ELSE FRAME_RATE_NO_VOTE

Committed == drawingFrameRateForLayerTree = frameRateForLayerTree

C27_RetainedFramesBounded ==
    /\ [](Len(mDisplayFrames) <= mMaxDisplayFrames)
    /\ [][presented' # presented =>
            /\ mDisplayFrames'[Len(mDisplayFrames')].id = presented'
            /\ IF Len(mDisplayFrames) = mMaxDisplayFrames
               THEN /\ Len(mDisplayFrames') = mMaxDisplayFrames
                    /\ \A i \in 1..(Len(mDisplayFrames) - 1) :
                          mDisplayFrames'[i] = mDisplayFrames[i + 1]
               ELSE /\ Len(mDisplayFrames') = Len(mDisplayFrames) + 1
                    /\ \A i \in 1..Len(mDisplayFrames) :
                          mDisplayFrames'[i] = mDisplayFrames[i]]_vars
    /\ [][mMaxDisplayFrames' # mMaxDisplayFrames =>
            Len(mDisplayFrames') <= mMaxDisplayFrames']_vars

\* The maximum was shrunk below the number of frames presented since, and
\* the deque is full with the window moved past the first of them.
C27_Witness ==
    /\ mMaxDisplayFrames < DefaultMaxDisplayFrames
    /\ Len(mDisplayFrames) = mMaxDisplayFrames
    /\ mDisplayFrames[1].id > 2
    /\ presented = MaxPresented

\* C28: once a setup whose link was registered and the binderDied of that
\* link have both finished, the server is not running and the link is not
\* in the owner's link set.
C28_DeathDuringSetupShutsDown ==
    setupCall.pc = "returned" /\ deathCall.pc = "done"
        => ~bridge.started /\ ~bridge.inSet

\* The part of C28 that holds: the link is never left in the set, because
\* the erase waits for the lock the setup holds until it returns.
C28_LinkAbsent ==
    setupCall.pc = "returned" /\ deathCall.pc = "done" => ~bridge.inSet

C30_RemoteReferencesBalanced ==
    (bp.life = "destroyed" /\ bp.mRemote # NULL) =>
        /\ tally.ctorInc = 1
        /\ tally.lastDec = tally.lastRefs
        /\ tally.dtorDec = (IF tally.firstRefs = 0 THEN 1 ELSE 0)
        /\ tally.ctorInc + tally.attemptInc = tally.lastDec + tally.dtorDec
        /\ tally.weakInc = 1
        /\ tally.weakDec = 1

\* The proxy was acquired, released, revived from a weak reference,
\* released again and destroyed.
C30_Witness ==
    /\ bp.life = "destroyed"
    /\ bp.mRemote # NULL
    /\ tally.firstRefs = 1
    /\ tally.attemptInc >= 1
    /\ tally.lastRefs >= 2

(***************************************************************************)
(* The dispatch of transact.                                               *)
(***************************************************************************)
BuiltinCodes ==
    {"PING_TRANSACTION", "START_RECORDING_TRANSACTION", "STOP_RECORDING_TRANSACTION",
     "EXTENSION_TRANSACTION", "DEBUG_PID_TRANSACTION", "SET_RPC_CLIENT_TRANSACTION"}

\* C31: a transact with PING, START_RECORDING, STOP_RECORDING, EXTENSION,
\* DEBUG_PID or SET_RPC_CLIENT never calls onTransact, so the onTransact of
\* a subclass sees none of them and PING still answers OK; a transact with
\* any other code calls onTransact exactly once, with that code.
C31_BuiltinsNeverReachOnTransact ==
    lastOp.op = "transact" =>
        /\ lastOp.args.code \in BuiltinCodes => onTransactCalls = <<>>
        /\ lastOp.args.code \notin BuiltinCodes => onTransactCalls = <<lastOp.args.code>>
        /\ lastOp.args.code = "PING_TRANSACTION" => lastOp.status = "OK"

\* An extension request on an object with an extension, while transactions
\* are recorded, was answered without a call of the subclass.
C31_Witness ==
    /\ onTransactCalls = <<>>
    /\ lastOp.op = "transact"
    /\ lastOp.args.code = "EXTENSION_TRANSACTION"
    /\ lastOp.status = "OK"
    /\ mExtension # NULL
    /\ mRecordingOn

(***************************************************************************)
(* The stream of events of a GestureConverter.                             *)
(***************************************************************************)
\* The events of out carry on a stream that ended with a pointer down, or
\* not, without two ACTION_DOWN in a row and without an ACTION_UP that
\* follows no ACTION_DOWN.
RECURSIVE Alternates(_, _)
Alternates(down, out) ==
    IF out = <<>> THEN TRUE
    ELSE CASE Head(out).action = "DOWN" -> ~down /\ Alternates(TRUE, Tail(out))
           [] Head(out).action = "UP" -> down /\ Alternates(FALSE, Tail(out))
           [] OTHER -> Alternates(down, Tail(out))

\* C32: in the events a GestureConverter returns over any sequence of
\* gestures and resets, ACTION_DOWN and ACTION_UP alternate, starting with
\* ACTION_DOWN.
C32_DownUpAlternate ==
    [][Alternates(streamDown, gestureOut')]_vars

(***************************************************************************)
(* The TouchpadInputMapper.                                                *)
(***************************************************************************)
\* C33: the fatal check "first pinch gesture does not have the START zoom
\* state" never fires: no pinch gesture other than a START is handled while
\* the classification is not PINCH, also after a reset in the middle of a
\* pinch and after gestures were dropped for want of a display.
C33_FirstPinchHasStart ==
    ~gestureFatal

\* C34: no motion event is built while no display is configured: a
\* processGestures without a display returns no event and leaves the
\* converter as it is, and every event returned carries the display
\* configured, also when reset runs after the display was taken away in the
\* middle of a gesture or of a button press.
C34_NoEventWithoutDisplay ==
    /\ [](/\ ~tpTrap
          /\ \A i \in DOMAIN gestureOut :
                mDisplayId # NoDisplay /\ gestureOut[i].displayId = mDisplayId)
    /\ [][(tpPc = "pushing" /\ tpPc' = "idle" /\ mDisplayId = NoDisplay) =>
            (gestureOut' = <<>> /\ UNCHANGED converterVars)]_vars


\* C35: a gesture the interpreter hands over while the mapper resets it is
\* dropped: nothing is queued while the flag is set, a reset returns the
\* events of GestureConverter::reset and no others and leaves the queue
\* empty, and the flag is clear whenever the mapper is not inside reset.
C35_GesturesDuringResetDiscarded ==
    /\ [](/\ tpPc # "resetting" => ~mResettingInterpreter
          /\ mResettingInterpreter => mGesturesToProcess = <<>>)
    /\ [][(tpPc = "resetting" /\ tpPc' = "idle" /\ ~tpTrap') =>
            /\ ActionsOf(gestureOut') = ActionsOf(reset(Converter).out)
            /\ mGesturesToProcess' = <<>>
            /\ ~mResettingInterpreter']_vars

\* A reset in the middle of a gesture has returned: the interpreter's
\* ending gesture was dropped and the events are those of the converter.
C35_Witness ==
    /\ tpPc = "idle"
    /\ gestureCall.op = "reset"
    /\ gestureCall.when > 0
    /\ tpDiscarded = 1
    /\ gestureOut # <<>>
    /\ mGesturesToProcess = <<>>
    /\ ~mResettingInterpreter

(***************************************************************************)
(* The InputDeviceMetricsCollector.                                        *)
(***************************************************************************)
ActiveDevices == {d \in MetricsDevices : mActiveUsageSessions[d] # NoSession}

\* C36: at all times every device with an active usage session is a key of
\* the logged-device table, and the fatal check on the device info in
\* reportCompletedSessions has not fired, whatever the order of device-list
\* changes, events and interactions.
C36_ActiveSessionsAreLogged ==
    /\ ActiveDevices \subseteq mLoggedDeviceInfos
    /\ ~mcFatal

\* A device-list change has just removed a device in a session, which was
\* reported before its timeout, while another device stays logged with its
\* session.
C36_Witness ==
    \E d, gone \in MetricsDevices :
        /\ d \in ActiveDevices
        /\ gone \notin mLoggedDeviceInfos
        /\ mcReports[gone] = 1
        /\ mcNow < UsageSessionTimeout

\* The session of device d has had no event for the session timeout.
TimedOut(d) ==
    /\ d \in ActiveDevices
    /\ mActiveUsageSessions[d].end + UsageSessionTimeout <= mcNow

\* C37: each usage session is reported to the logger exactly once, either
\* at the first notification processed at least the session timeout after
\* the device's last event or when the device leaves the device list, and
\* an event arriving after the report starts a new session.  In every step
\* and for every device: a call reports a device at most once and only a
\* device that had a session; a session that is gone has been reported by
\* that call; a report is made by a notification, of a session that timed
\* out or of a device taken out of the device list; a notification reports
\* every session that timed out and every session of a device it removes;
\* and a session the device has after its report is a new one, of later
\* events only, while a session that is not reported goes on.  After a
\* notification no session is timed out.
C37_ReportedExactlyOnce ==
    /\ [](mcNotified => \A d \in MetricsDevices : ~TimedOut(d))
    /\ [][\A d \in MetricsDevices :
            LET removed == d \in mLoggedDeviceInfos /\ d \notin mLoggedDeviceInfos'
                before == mActiveUsageSessions[d]
                after == mActiveUsageSessions'[d]
            IN
            /\ mcReports'[d] <= 1
            /\ mcReports'[d] = 1 => d \in ActiveDevices
            /\ (d \in ActiveDevices /\ after = NoSession) => mcReports'[d] = 1
            /\ mcReports'[d] = 1 => mcNotified' /\ (TimedOut(d) \/ removed)
            /\ (mcNotified' /\ d \in ActiveDevices /\ (TimedOut(d) \/ removed))
                   => mcReports'[d] = 1
            /\ (mcReports'[d] = 1 /\ after # NoSession) =>
                   /\ after.end > before.end
                   /\ after.byUid = NoTime
                   /\ \A src \in UsageSources : after.bySource[src] \in {NoTime, after.end}
            /\ (d \in ActiveDevices /\ mcReports'[d] = 0) =>
                   after # NoSession /\ after.end >= before.end]_vars

\* A notification made when the session timeout had passed since a device's
\* last event has reported the device's session, and the event it carried
\* has started the next one.
C37_Witness ==
    \E d \in mLoggedDeviceInfos :
        /\ mcNotified
        /\ mcReports[d] = 1
        /\ d \in ActiveDevices
        /\ mcNow >= UsageSessionTimeout

\* C38: getService never returns a service it has found dead: when, with
\* the thread pool not started, polling gives up, it returns null, so that
\* registerUidObserver reports DEAD_OBJECT instead of calling into a dead
\* service.
C38_NeverReturnsDeadService ==
    (amLast.op = "registerUidObserver" /\ amLast.polled) =>
        /\ amLast.called \notin amLast.foundDead
        /\ amLast.gaveUp => amLast.called = NULL /\ amLast.status = "DEAD_OBJECT"

InPollingLoop == amPc \in {"polling", "checkService", "sleeping"}

\* C39: with the thread pool not started, the polling loop of getService
\* always terminates and releases its lock within the give-up limit,
\* whatever the service manager returns on each poll: a thread in the loop
\* has slept at most once more than the limit since its first poll without
\* a binder, and it leaves the loop with the lock released.
C39_PollingTerminates ==
    /\ []((InPollingLoop /\ amStartTime # 0) => amClock - amStartTime <= GiveUpLimit + 1)
    /\ (InPollingLoop ~> (amPc = "idle" /\ ~amLock))

\* C40: for each driver load reported through setDriverLoaded the GPU stats
\* of that API are sent to the GPU service at most once, in every
\* interleaving of setDriverLoaded with hintActivityLaunch and the thread it
\* spawns: no API has had more sends than loads.
C40_StatsSentOncePerLoad ==
    \A api \in GpuApis : gpuStatsSent[api] <= driverLoads[api]
====
